---- MODULE Spec2Model ----
(***************************************************************************)
(* Model of janim's Timeline (src/janim/anims/timeline.py): the virtual    *)
(* clock, the scheduled-task queue, show/hide bookkeeping and the per-item *)
(* histories.                                                              *)
(*                                                                         *)
(* Time is counted in ticks.  Quantum ticks make 10^-4 s, the precision of *)
(* round(at, 4) in Timeline.schedule, so the clock of the model resolves   *)
(* times that the rounding of schedule merges.                             *)
(***************************************************************************)
EXTENDS Integers, Sequences, FiniteSets, TLC

\* ------------------------------------------------------------------ bounds
MaxAt    == 4      \* schedule(at, ...) is called with at in 0..MaxAt
MaxDt    == 2      \* forward(dt) is called with dt in -1..MaxDt
MaxTime  == 4      \* forward is not called once it would pass MaxTime
MaxTasks == 2      \* number of schedule calls in one construct
MaxSpans == 2      \* show is not called once MaxSpans spans were recorded
MaxData  == 1      \* an item is mutated at most MaxData times
MaxMarks == 1      \* schedule calls of a construct that also tracks items
MaxAnims == 1      \* prepare and play are not called once anims has MaxAnims
MaxOffset == 1     \* a prepared group starts 0..MaxOffset after being prepared
MaxDynamics == 1   \* register_dynamic calls for one item
MaxShort == 2      \* as MaxTime, in a construct that does more than forward
MaxItems == 3      \* items a scene makes before it stores one
MaxScene == 4      \* items a scene makes before one becomes another
MaxCopies == 3     \* items the calls on the items of a scene make
MaxStored == 1     \* stored copies of the items of a scene
MaxChildren == 2   \* children of one item
MaxEnd == 2        \* time at which the Timeline of a TimelineAnim ended
MaxCalls == 2      \* draw calls of one animation
MaxLen == 3        \* rows of a Cmpt_Rgbas
MaxPeriod == 2     \* the time of a frame, 1 / fps

\* ------------------------------------------------------------- constants
Quantum == 3       \* ticks per 10^-4 s: round(at, 4) keeps multiples of it

None == -1         \* Python's None where a time is expected

\* The items of the scene: a group and its only child.
Items == {"group", "child"}

\* Relation.descendants (janim.items.relation): the items below an item.
Descendants(item) == IF item = "group" THEN {"child"} ELSE {}

\* The component state of an item, as a version number: 0 as constructed, one
\* more after every mutation.
ItemData == 0..MaxData

\* A DynamicItem, the callable from a time to an Item that a history holds for
\* a dynamic region.
Dynamic == -2

\* isinstance(data, Item) of the data of a history record
IsItem(data) == data \in ItemData

\* What a scheduled task calls: a plain callback, or Item.show / Item.hide of
\* the group (as Timeline.subtitle schedules them).
Funcs == {"mark", "show", "hide"}

VARIABLES
    current_time,        \* Timeline.current_time
    scheduled_tasks,     \* Timeline.scheduled_tasks: list of ScheduledTask
    item_display_times,  \* Timeline.item_display_times: item -> time | None
    display_anims,       \* Timeline.display_anims: list of Display ranges
    items_history,       \* Timeline.items_history: item -> ItemHistory
    item_data,           \* the live component state of every item
    pc,                  \* "construct": between calls; "forward": in forward's
                         \* loop; "returned": forward is returning
    to_time,             \* forward's local to_time
    call_time,           \* current_time when the running forward was called
    call_dt,             \* the dt the running forward was called with
    call_mark,           \* Len(executed) when the running forward was called
    executed,            \* the invocations task.func(...) made so far, in order
    next_id,             \* number of schedule calls made so far
    raised,              \* the exception the last call ended with, or "none"
    call,                \* the last call of the construct or of build, with
                         \* its arguments
    anims,               \* Timeline.anims: the ranges of the prepared groups
    call_detects,        \* the runs of detect_changes_of_all the running call
                         \* has made
    maxt,                \* TimelineAnim.maxt of the built timeline, or None
    heap,                \* the Item objects made so far, an item being known
                         \* by its position
    flattened,           \* TimelineAnim.flattened: the animations of a built
                         \* timeline
    _time,               \* TimelineAnim._time, or None
    ctx_var,             \* Timeline.ctx_var: the values set and not yet
                         \* reset, the current one last
    heap_display_times,  \* Timeline.item_display_times of the items of the
                         \* heap: the time of each one that is displayed
    writer,              \* a VideoWriter of the built timeline, its encoder
                         \* and its files
    rgbas                \* two Cmpt_Rgbas components, whether the item of
                         \* the second is below the item of the first, and
                         \* what align_for_interpolate returned for them

vars == <<current_time, scheduled_tasks, item_display_times,
          display_anims, items_history, item_data, pc, to_time, call_time,
          call_dt, call_mark, executed, next_id, raised, call, anims,
          call_detects, maxt, heap, flattened, _time, ctx_var, rgbas,
          heap_display_times, writer>>

\* what neither a Timeline nor the items of a scene hold
apart == <<rgbas, heap_display_times, writer>>

\* the variables of the forward call that is running
locals == <<pc, to_time, call_time, call_dt, call_mark, call_detects>>

\* what build and prepare produce
products == <<anims, maxt>>

\* the items of the scene and the animations of a built timeline
scene == <<heap, flattened, _time, ctx_var, apart>>

\* ------------------------------------------------------------- schedule

\* round(at, 4): the nearest multiple of Quantum, a tie going to the even one.
Rough(at) ==
    LET q == at \div Quantum
        r == at % Quantum
    IN  IF 2 * r < Quantum THEN q * Quantum
        ELSE IF 2 * r > Quantum THEN (q + 1) * Quantum
        ELSE IF q % 2 = 0 THEN q * Quantum ELSE (q + 1) * Quantum

\* bisect.bisect_right(a, x, lo, hi, key=lambda t: t.at)
RECURSIVE BisectRight(_, _, _, _)
BisectRight(a, x, lo, hi) ==
    IF lo < hi
    THEN LET mid == (lo + hi) \div 2
         IN  IF x < a[mid + 1].at
             THEN BisectRight(a, x, lo, mid)
             ELSE BisectRight(a, x, mid + 1, hi)
    ELSE lo

\* list.insert(pos, x)
InsertAt(a, pos, x) == SubSeq(a, 1, pos) \o <<x>> \o SubSeq(a, pos + 1, Len(a))

\* Timeline.schedule: the task is inserted (bisect.insort) under its rounded
\* time, and then carries its true time.  The callback is given the time it was
\* scheduled for as its argument.
ScheduleTask(tasks, at, func, id) ==
    LET task == [at |-> Rough(at), func |-> func, args |-> at, id |-> id]
        pos  == BisectRight(tasks, task.at, 0, Len(tasks))
    IN  [InsertAt(tasks, pos, task) EXCEPT ![pos + 1].at = at]

\* ------------------------------------------------------------ show, hide

\* _show assigning the entry of the item whether present or not
ShowItemOverwrites(times, item, now) == [times EXCEPT ![item] = now]

\* Timeline._show: item_display_times.setdefault(item, current_time)
ShowItem(times, item, now) ==
    IF times[item] = None THEN [times EXCEPT ![item] = now] ELSE times

\* the items show and hide visit: the root, then its descendants
RootAndBelow(root, root_only) ==
    IF root_only THEN {root} ELSE {root} \cup Descendants(root)

\* Timeline.show(root, root_only=...)
ShowAll(times, root, root_only, now) ==
    [i \in Items |->
        IF i \in RootAndBelow(root, root_only) THEN ShowItem(times, i, now)[i]
        ELSE times[i]]

\* the order in which hide visits the root and its descendants
HideOrder(root, root_only) ==
    IF RootAndBelow(root, root_only) = {root} THEN <<root>> ELSE <<root, "child">>

\* Timeline._hide, the Display it appends: Display(item, duration) moved to time
HideSpan(item, time, now) == [item |-> item, at |-> time, duration |-> now - time]

\* Timeline._hide on display_anims: nothing for an item that is not displayed
HideItemAnims(displays, times, item, now) ==
    IF times[item] = None THEN displays
    ELSE Append(displays, HideSpan(item, times[item], now))

\* _hide reading the entry of the item without removing it
HideItemTimesKeeps(times, item) == times

\* Timeline._hide on item_display_times: pop(item, None)
HideItemTimes(times, item) == [times EXCEPT ![item] = None]

\* Timeline.hide(root, root_only=...) on display_anims
RECURSIVE HideAllAnims(_, _, _, _)
HideAllAnims(displays, times, order, now) ==
    IF order = <<>> THEN displays
    ELSE HideAllAnims(HideItemAnims(displays, times, Head(order), now),
                      times, Tail(order), now)

\* Timeline.hide(root, root_only=...) on item_display_times
HideAllTimes(times, root, root_only) ==
    [i \in Items |->
        IF i \in RootAndBelow(root, root_only) THEN HideItemTimes(times, i)[i]
        ELSE times[i]]

\* TimeRange.end
SpanEnd(span) == span.at + span.duration

\* ---------------------------------------------------------------- history

\* History.has_record
HasRecord(h) == h # <<>>

\* History.latest
Latest(h) == h[Len(h)]

\* History.record_as_time(t, data, replaceable)
RecordAsTime(h, t, data, replaceable) ==
    IF replaceable /\ HasRecord(h) /\ Latest(h).time = t
    THEN [h EXCEPT ![Len(h)] = [time |-> t, data |-> data]]
    ELSE Append(h, [time |-> t, data |-> data])

\* Timeline.ItemHistory()
NewItemHistory == [tracked |-> TRUE, history |-> <<>>, history_without_dynamic |-> <<>>]

\* an item that is no key of items_history
Untracked == [tracked |-> FALSE, history |-> <<>>, history_without_dynamic |-> <<>>]

\* Item.not_changed finding a change in every stored copy
NotChangedNever(stored, live) == FALSE

\* Item.not_changed of a stored copy against the live item
NotChanged(stored, live) == stored = live

\* _detect_change recording only an item that has a record and has changed
DetectChangeOfChanged(ih, live, as_time) ==
    IF /\ HasRecord(ih.history_without_dynamic)
       /\ ~NotChanged(Latest(ih.history_without_dynamic).data, live)
    THEN [ih EXCEPT
            !.history = RecordAsTime(ih.history, as_time, live, FALSE),
            !.history_without_dynamic =
                RecordAsTime(ih.history_without_dynamic, as_time, live, FALSE)]
    ELSE ih

\* Timeline._detect_change
DetectChange(ih, live, as_time) ==
    IF \/ ~HasRecord(ih.history_without_dynamic)
       \/ ~NotChanged(Latest(ih.history_without_dynamic).data, live)
    THEN [ih EXCEPT
            !.history = RecordAsTime(ih.history, as_time, live, FALSE),
            !.history_without_dynamic =
                RecordAsTime(ih.history_without_dynamic, as_time, live, FALSE)]
    ELSE ih

\* Timeline.detect_changes_of_all
DetectChangesOfAll(ihs, data, now) ==
    [i \in Items |->
        IF ihs[i].tracked THEN DetectChange(ihs[i], data[i], now) ELSE ihs[i]]

\* self.items_history[item] of the defaultdict: the item becomes a key
Tracked(ih) == [ih EXCEPT !.tracked = TRUE]

\* detect_changes: as_time defaults to current_time
AsTime(as_time, now) == IF as_time = None THEN now ELSE as_time

\* Timeline.detect_changes(items, as_time=as_time)
DetectChangesOf(ihs, data, items, as_time) ==
    [i \in Items |->
        IF i \in items THEN DetectChange(Tracked(ihs[i]), data[i], as_time)
        ELSE ihs[i]]

\* register_dynamic recording the dynamic in both histories of the item
RegisterDynamicInBoth(ih, live, static, begin, end, static_replaceable) ==
    LET without == ih.history_without_dynamic
        state   == IF static # None THEN static
                   ELSE IF HasRecord(without) THEN Latest(without).data
                   ELSE live
    IN  [tracked |-> TRUE,
         history |->
             RecordAsTime(RecordAsTime(ih.history, begin, Dynamic, FALSE),
                          end, state, static_replaceable),
         history_without_dynamic |->
             RecordAsTime(RecordAsTime(without, begin, Dynamic, FALSE),
                          end, state, static_replaceable)]

\* Timeline.register_dynamic(item, dynamic, static, begin, end,
\* static_replaceable) on the ItemHistory of the item
RegisterDynamicOn(ih, live, static, begin, end, static_replaceable) ==
    LET without == ih.history_without_dynamic
        state   == IF static # None THEN static
                   ELSE IF HasRecord(without) THEN Latest(without).data
                   ELSE live
    IN  [tracked |-> TRUE,
         history |->
             RecordAsTime(RecordAsTime(ih.history, begin, Dynamic, FALSE),
                          end, state, static_replaceable),
         history_without_dynamic |->
             RecordAsTime(without, end, state, static_replaceable)]

\* bisect(lst, t, key=lambda x: x.time) of History.get
RECURSIVE BisectTime(_, _, _, _)
BisectTime(h, t, lo, hi) ==
    IF lo < hi
    THEN LET mid == (lo + hi) \div 2
         IN  IF t < h[mid + 1].time
             THEN BisectTime(h, t, lo, mid)
             ELSE BisectTime(h, t, mid + 1, hi)
    ELSE lo

\* History.get(t): the position of the record found, 0 when there is no
\* record at or before t (NoRecordError)
GetPos(h, t) == BisectTime(h, t, 0, Len(h))

\* what item_current returns or raises, with the time of the record it took
Live(live) == [kind |-> "live", time |-> None, data |-> live]

\* Timeline.item_current(item, as_time=as_time, skip_dynamic=skip_dynamic),
\* outside of an updater and of a playback when as_time is None
ItemCurrentOn(ih, live, as_time, skip_dynamic) ==
    LET history == IF skip_dynamic THEN ih.history_without_dynamic
                   ELSE ih.history
        pos     == GetPos(history, as_time)
    IN  IF ~HasRecord(history) THEN Live(live)
        ELSE IF as_time = None THEN Live(live)
        ELSE IF pos = 0
             THEN [kind |-> "NoRecordError", time |-> None, data |-> None]
        ELSE IF IsItem(history[pos].data)
             THEN [kind |-> "snapshot", time |-> history[pos].time,
                   data |-> history[pos].data]
        ELSE [kind |-> "dynamic", time |-> history[pos].time,
              data |-> Dynamic]

\* a call of the construct other than show and hide
OtherCall == [op |-> "other", root |-> "group", root_only |-> FALSE]

\* ------------------------------------------------------------------ rgbas

\* Cmpt_Rgbas.__init__: clear() sets one row of ones; a component is known
\* by its rows, a row by one number
NewRgbasData == <<1>>

\* the rows a Cmpt_Rgbas can hold
RgbasData == UNION {[1..n -> {0, 1}] : n \in 1..MaxLen}

\* two new components of items apart from each other, not yet aligned
NewRgbas == [cmpt1 |-> NewRgbasData, cmpt2 |-> NewRgbasData,
             below |-> FALSE, aligned |-> <<>>]

\* resize_with_interpolation(nparray, length): length rows at equal
\* distances from the first to the last, between two rows their
\* interpolation, rounded down
ResizeWithInterpolation(data, length) ==
    IF Len(data) = length THEN data
    ELSE [i \in 1..length |->
            IF length = 1 THEN data[1]
            ELSE LET at == (i - 1) * (Len(data) - 1)
                     lh == at \div (length - 1) + 1
                     a  == at % (length - 1)
                     rh == IF a = 0 THEN lh ELSE lh + 1
                 IN  ((length - 1 - a) * data[lh] + a * data[rh])
                        \div (length - 1)]

\* Cmpt_Rgbas.resize(length): the rows it sets
RgbasResize(data, length) ==
    ResizeWithInterpolation(data, IF length >= 1 THEN length ELSE 1)

\* align_for_interpolate: the two copies after its if/elif, and whether
\* resize was called on the first
ResizedCopies(data1, data2) ==
    IF Len(data1) < Len(data2)
    THEN [resized |-> TRUE, copy1 |-> RgbasResize(data1, Len(data2)),
          copy2 |-> data2]
    ELSE IF Len(data1) > Len(data2)
    THEN [resized |-> TRUE, copy1 |-> RgbasResize(data1, Len(data1)),
          copy2 |-> data2]
    ELSE [resized |-> FALSE, copy1 |-> data1, copy2 |-> data2]

\* Cmpt_Rgbas.align_for_interpolate(cmpt1, cmpt2): the components after the
\* call and the AlignedData returned.  The copy of cmpt1 is bound as cmpt1
\* is, and resize sets what it sets on the components of the items below
\* the item it is bound to as well.
AlignRgbas(cmpt1, cmpt2, below) ==
    LET copies == ResizedCopies(cmpt1, cmpt2)
    IN  [cmpt1 |-> cmpt1,
         cmpt2 |-> IF copies.resized /\ below THEN copies.copy1 ELSE cmpt2,
         below |-> below,
         aligned |-> [data1 |-> copies.copy1, data2 |-> copies.copy2,
                      union |-> copies.copy1]]

\* ---------------------------------------------------------------- context

\* the Timeline of the model, and one that is being built around it
Self == "self"
Outer == "outer"

\* ContextSetter.__enter__: the variable is set, the value it had is kept
ContextEnter(ctx, value) == Append(ctx, value)

\* ContextSetter.__exit__ leaving the variable as it is
ContextExitKeeps(ctx) == ctx

\* ContextSetter.__exit__: the variable is reset to the value it had
ContextExit(ctx) == SubSeq(ctx, 1, Len(ctx) - 1)

\* Timeline.get_context(raise_exc): the Timeline being built, None, or the
\* exception raised
GetContext(ctx, raise_exc) ==
    IF ctx = <<>>
    THEN IF raise_exc
         THEN [obj |-> "None", raised |-> "TimelineLookupError"]
         ELSE [obj |-> "None", raised |-> "none"]
    ELSE [obj |-> ctx[Len(ctx)], raised |-> "none"]

\* ------------------------------------------------------------------ items

\* The classes of the model: Item, which declares depth (item.py:78), Points
\* below it, which declares points, and VItem below Points, which declares
\* points again, with a component class below that of Points, and stroke.
Classes == {"Item", "Points", "VItem"}

\* the classes items are made of
ItemClasses == {"Item", "VItem"}

\* cls.mro(): the class and the classes above it, the class first
Mro(cls) ==
    CASE cls = "VItem"  -> <<"VItem", "Points", "Item">>
      [] cls = "Points" -> <<"Points", "Item">>
      [] OTHER          -> <<"Item">>

\* isinstance(an item of class cls, decl_cls)
IsInstance(cls, decl_cls) == \E n \in DOMAIN Mro(cls) : Mro(cls)[n] = decl_cls

\* cls.__dict__[CLS_CMPTINFO_NAME]: the CmptInfo the class itself declares,
\* each given by the class of the component it creates
ClsCmptInfo(cls) ==
    CASE cls = "VItem" ->
             [key \in {"points", "stroke"} |->
                 IF key = "points" THEN "Cmpt_VPoints" ELSE "Cmpt_Rgbas"]
      [] cls = "Points" -> [key \in {"points"} |-> "Cmpt_Points"]
      [] OTHER -> [key \in {"depth"} |-> "Cmpt_Depth"]

\* issubclass(cmpt_cls, of_cls) for the classes of components
IsSubclass(cmpt_cls, of_cls) ==
    \/ cmpt_cls = of_cls
    \/ cmpt_cls = "Cmpt_VPoints" /\ of_cls = "Cmpt_Points"

\* the keys of the components in the order in which the dict of an item holds
\* them: the order of declaration, from Item down
KeyOrder == <<"depth", "points", "stroke">>

\* the keys of the components _init_components creates for an item of a class
CmptKeys(cls) ==
    UNION {DOMAIN ClsCmptInfo(Mro(cls)[n]) : n \in DOMAIN Mro(cls)}

\* isinstance(cmpt, SupportsInterpolate) for the component of a key
SupportsInterpolate(key) == key \in {"points", "stroke"}

\* the elements of a list
Range(list) == {list[n] : n \in DOMAIN list}

\* a dict without entries
Empty == [key \in {} |-> 0]

\* the data of a component: what it holds when it is created, and what a
\* scene sets in its place
Data == {0, 1}

\* a component as _init_components creates and binds it
NewCmpt(at) == [at |-> at, data |-> 0]

\* Item.__init__ of an item of class cls, the item at position at of the heap
NewItemOf(cls, at) ==
    [cls |-> cls, stored |-> FALSE, parents |-> <<>>, children |-> <<>>,
     stored_parents |-> <<>>, stored_children |-> <<>>,
     components |-> [key \in CmptKeys(cls) |-> NewCmpt(at)],
     _astype |-> "None", _astype_mock_cmpt |-> Empty]

\* Item.get_parents
GetParents(item) == IF item.stored THEN item.stored_parents ELSE item.parents

\* Item.get_children
GetChildren(item) ==
    IF item.stored THEN item.stored_children ELSE item.children

\* the items below an item of the heap h
RECURSIVE Below(_, _)
Below(h, i) ==
    Range(h[i].children) \cup UNION {Below(h, c) : c \in Range(h[i].children)}

\* an item of the heap and the items below it
Family(h, i) == {i} \cup Below(h, i)

\* Relation.add(child): the child is appended unless it is a child already
AddTo(h, parent, child) ==
    IF child \in Range(h[parent].children) THEN h
    ELSE [h EXCEPT ![parent].children = Append(@, child),
                   ![child].parents = Append(@, parent)]

\* a list without an element
Without(list, x) == SelectSeq(list, LAMBDA y : y # x)

\* Relation.remove(child)
RemoveFrom(h, parent, child) ==
    [h EXCEPT ![parent].children = Without(@, child),
              ![child].parents = Without(@, parent)]

\* Relation.clear_children: every child is removed
RECURSIVE ClearChildren(_, _)
ClearChildren(h, parent) ==
    IF h[parent].children = <<>> THEN h
    ELSE ClearChildren(RemoveFrom(h, parent, Head(h[parent].children)),
                       parent)

\* Component.copy, and init_bind of the copy to the item at
CmptCopy(cmpt, at) == [at |-> at, data |-> cmpt.data]

\* the classes of cls.mro() that declare a component of the name
Declaring(cls, name) ==
    SelectSeq(Mro(cls), LAMBDA sup : name \in DOMAIN ClsCmptInfo(sup))

\* the class that declares the component of a key for the class cls, the
\* last of cls.mro() to do so: bind.decl_cls
DeclCls(cls, key) == Declaring(cls, key)[Len(Declaring(cls, key))]

\* getattr(cls, name): the CmptInfo of the first class of cls.mro() that
\* declares the name, given by the class of the component it creates
CmptInfoOf(cls, name) == ClsCmptInfo(Declaring(cls, name)[1])[name]

\* Cmpt_Rgbas.set(rgbas) of the component of the item at: the items whose
\* component of the key is set, the item and, root_only being False, its
\* descendants of the declaring class; the components of the other keys
\* set their own data only
Swept(h, at, key) ==
    IF key = "stroke"
    THEN {at} \cup {i \in Below(h, at) :
                       IsInstance(h[i].cls, DeclCls(h[at].cls, key))}
    ELSE {at}

\* cmpt.set_rgbas(rgbas) for the component of the key of every item of
\* items from the n-th on
RECURSIVE SetRgbas(_, _, _, _, _)
SetRgbas(h, items, key, data, n) ==
    IF n > Len(h) THEN h
    ELSE SetRgbas(IF n \in items
                  THEN [h EXCEPT ![n].components[key].data = data]
                  ELSE h,
                  items, key, data, n + 1)

\* Component.become of the component of a key of the item at
\* (Cmpt_Rgbas.become: self.set(other.get()))
CmptBecome(h, at, key, data) == SetRgbas(h, Swept(h, at, key), key, data, 1)

\* Component.not_changed
CmptNotChanged(cmpt, other) == cmpt.data = other.data

\* Item.copy keeping the children of the source as children of the copy
StoredFlagNever(stored, root_only) == stored

\* copy: copy_item.stored after copy.copy(self) and the root_only branch
StoredFlag(stored, root_only) == root_only \/ stored

\* Item.copy(root_only=root_only) of the item i: the heap with the copy, and
\* where the copy is
RECURSIVE ItemCopy(_, _, _), CopyChildren(_, _, _, _)
ItemCopy(h, i, root_only) ==
    LET at == Len(h) + 1
        copy_item ==
            [h[i] EXCEPT
                !.parents = <<>>,
                !.children = <<>>,
                !.stored = StoredFlag(@, root_only),
                !.stored_parents =
                    IF root_only THEN GetParents(h[i]) ELSE @,
                !.stored_children =
                    IF root_only THEN GetChildren(h[i]) ELSE @,
                !.components = [key \in DOMAIN @ |-> CmptCopy(@[key], at)],
                !._astype_mock_cmpt = Empty]
    IN  IF root_only THEN [heap |-> Append(h, copy_item), at |-> at]
        ELSE CopyChildren(Append(h, copy_item), at, h[i].children, 1)

\* copy: copy_item.add(*[item.copy() for item in self.children]), from the
\* n-th child on
CopyChildren(h, at, children, n) ==
    IF n > Len(children) THEN [heap |-> h, at |-> at]
    ELSE LET copied == ItemCopy(h, children[n], FALSE)
         IN  CopyChildren(AddTo(copied.heap, at, copied.at), at, children,
                          n + 1)

\* Item.store
ItemStore(h, i) == ItemCopy(h, i, TRUE)

\* the keys of a set in the order of the dicts of components
KeysIn(keys) == SelectSeq(KeyOrder, LAMBDA key : key \in keys)

\* become: self.components.keys() | other.components.keys()
BecomeKeys(mine, theirs) == mine \cup theirs

\* become taking the child of the other item itself
BecomeChildShared(h, new) == [heap |-> h, at |-> new]

\* become: new.copy() for a position without a child of the same type
BecomeChild(h, new) == ItemCopy(h, new, FALSE)

\* Item.become(other) of the item self, outside of a Timeline: the heap, and
\* the exception raised.  done: the keys the loop over the components went
\* through before one that only one of the items has.
RECURSIVE ItemBecome(_, _, _, _), BecomeChildren(_, _, _, _, _)
RECURSIVE BecomeComponents(_, _, _, _, _)
ItemBecome(h, self, other, done) ==
    LET children == h[self].children
        cleared  == ClearChildren(h, self)
        paired   == BecomeChildren(cleared, self, children,
                                   cleared[other].children, 1)
        mine     == DOMAIN paired[self].components
        theirs   == DOMAIN paired[other].components
        keys     == BecomeKeys(mine, theirs)
        both     == mine \cap theirs
    IN  IF keys \subseteq both
        THEN [heap |-> BecomeComponents(paired, self, other, KeysIn(keys), 1),
              raised |-> "none"]
        ELSE [heap |-> BecomeComponents(paired, self, other,
                                        KeysIn(done \cap both), 1),
              raised |-> "KeyError"]

\* become: self.components[key].become(other.components[key]) for the keys
\* from the n-th on
BecomeComponents(h, self, other, keys, n) ==
    IF n > Len(keys) THEN h
    ELSE BecomeComponents(
             CmptBecome(h, self, keys[n], h[other].components[keys[n]].data),
             self, other, keys, n + 1)

\* become: the loop over zip_longest(children, other.children), from the n-th
\* pair on
BecomeChildren(h, self, olds, news, n) ==
    IF n > Len(news) THEN h
    ELSE IF n > Len(olds) \/ h[olds[n]].cls # h[news[n]].cls
         THEN LET copied == BecomeChild(h, news[n])
              IN  BecomeChildren(AddTo(copied.heap, self, copied.at), self,
                                 olds, news, n + 1)
         ELSE LET became == ItemBecome(h, olds[n], news[n], {})
              IN  BecomeChildren(AddTo(became.heap, self, olds[n]), self,
                                 olds, news, n + 1)

\* the items become runs on, with their pairs: self, and each child of self
\* that has a child of other of its type at its place, as become calls
\* become on it
RECURSIVE Becoming(_, _, _)
Becoming(h, self, other) ==
    {self} \cup
    UNION {Becoming(h, h[self].children[n], h[other].children[n]) :
              n \in {m \in DOMAIN h[self].children \cap
                               DOMAIN h[other].children :
                         h[h[self].children[m]].cls =
                            h[h[other].children[m]].cls}}

\* Timeline.is_displaying(item)
IsDisplaying(times, item) == item \in DOMAIN times

\* Timeline.show(root): setdefault(item, current_time) for the root and its
\* descendants
ShowFamily(times, h, root, now) ==
    [i \in DOMAIN times \cup Family(h, root) |->
        IF i \in DOMAIN times THEN times[i] ELSE now]

\* the end of become, for each of the items become returned for, in the
\* heap become left: the item is shown again if a Timeline is the context
\* and displays it
RECURSIVE BecomeShow(_, _, _, _, _)
BecomeShow(times, h, ctx, became, now) ==
    IF became = {} THEN times
    ELSE LET item == CHOOSE i \in became : TRUE
             timeline == GetContext(ctx, FALSE).obj
             shown == IF timeline = Self /\ IsDisplaying(times, item)
                      THEN ShowFamily(times, h, item, now)
                      ELSE times
         IN  BecomeShow(shown, h, ctx, became \ {item}, now)

\* list1 is not list2: two lists are never the same object
ListsDifferAsObjects(list1, list2) == Len(list1) >= 0 /\ Len(list2) >= 0

\* list1 != list2 of two lists of items, an item being equal to itself only
ListsDiffer(list1, list2) ==
    \/ Len(list1) # Len(list2)
    \/ \E n \in DOMAIN list1 : list1[n] # list2[n]

\* the keys of a dict of components, in the order of the dict
KeysOf(components) == KeysIn(DOMAIN components)

\* not_changed: the loop over self.components.items(), from the n-th key on
RECURSIVE CmptsNotChanged(_, _, _, _)
CmptsNotChanged(keys, n, mine, theirs) ==
    IF n > Len(keys) THEN [raised |-> "none", value |-> TRUE]
    ELSE IF keys[n] \notin DOMAIN theirs
         THEN [raised |-> "KeyError", value |-> FALSE]
    ELSE IF ~CmptNotChanged(mine[keys[n]], theirs[keys[n]])
         THEN [raised |-> "none", value |-> FALSE]
    ELSE CmptsNotChanged(keys, n + 1, mine, theirs)

\* not_changed comparing the children lists of the relation
ChildrenOfLive(item) == item.children

\* not_changed: the list of children it compares
ChildrenOf(item) == GetChildren(item)

\* Item.not_changed(other) of the item self: what it returns or raises
ItemNotChanged(h, self, other) ==
    IF ListsDiffer(ChildrenOf(h[self]), ChildrenOf(h[other]))
    THEN [raised |-> "none", value |-> FALSE]
    ELSE CmptsNotChanged(KeysOf(h[self].components), 1, h[self].components,
                         h[other].components)

\* Item.set_component
SetComponent(item, key, cmpt) ==
    [item EXCEPT !.components = (key :> cmpt) @@ @]

\* resize_preserving_order(list, length): the elements of the list repeated
\* or left out in their order; a list without elements has none to repeat
ResizePreservingOrder(list, length) ==
    IF Len(list) = 0 THEN list
    ELSE [n \in 1..length |-> list[((n - 1) * Len(list)) \div length + 1]]

\* the larger of two numbers
Max(a, b) == IF a >= b THEN a ELSE b

\* align_for_interpolate: the items data1, data2 and union are stored from,
\* AlignedData(item1.store(), item1.store(), item2.store())
AlignedStores(item1, item2) == <<item1, item1, item2>>

\* align_for_interpolate: the components cmpt_aligned.data1, data2 and union
\* of a key of item1; Component.copy leaves the copy bound as its source
CmptAligned(key, components1, components2) ==
    LET cmpt1 == components1[key]
    IN  IF key \notin DOMAIN components2 \/ ~SupportsInterpolate(key)
        THEN <<cmpt1, cmpt1, cmpt1>>
        ELSE <<CmptCopy(cmpt1, cmpt1.at),
               CmptCopy(components2[key], components2[key].at),
               CmptCopy(cmpt1, cmpt1.at)>>

\* align_for_interpolate: the loop over item1.components.items(), from the
\* n-th key on, on the copies at data1, data2 and union
RECURSIVE AlignComponents(_, _, _, _, _, _, _)
AlignComponents(h, keys, n, item1, item2, data1, union) ==
    IF n > Len(keys) THEN h
    ELSE LET cmpt_aligned == CmptAligned(keys[n], h[item1].components,
                                         h[item2].components)
             data2 == data1 + 1
         IN  AlignComponents(
                 [h EXCEPT
                     ![data1] = SetComponent(@, keys[n], cmpt_aligned[1]),
                     ![data2] = SetComponent(@, keys[n], cmpt_aligned[2]),
                     ![union] = SetComponent(@, keys[n], cmpt_aligned[3])],
                 keys, n + 1, item1, item2, data1, union)

\* Item.align_for_interpolate(item1, item2): the heap, and where data1,
\* data2 and union are
AlignForInterpolate(h, item1, item2) ==
    LET stores  == AlignedStores(item1, item2)
        data1   == Len(h) + 1
        data2   == data1 + 1
        union   == data2 + 1
        stored  == ItemStore(ItemStore(ItemStore(h, stores[1]).heap,
                                       stores[2]).heap, stores[3]).heap
        aligned == AlignComponents(stored, KeysOf(h[item1].components), 1,
                                   item1, item2, data1, union)
        max_len == Max(Len(GetChildren(h[item1])),
                       Len(GetChildren(h[item2])))
    IN  [heap |->
            [aligned EXCEPT
                ![data1].stored_children =
                    ResizePreservingOrder(GetChildren(h[item1]), max_len),
                ![data2].stored_children =
                    ResizePreservingOrder(GetChildren(h[item2]), max_len)],
         data1 |-> data1, data2 |-> data2, union |-> union]

\* alpha is counted in halves: 0, a half, and Whole for 1
Whole == 2

\* janim.utils.bezier.interpolate(start, end, alpha), rounded down
Lerp(start, end, alpha) == ((Whole - alpha) * start + alpha * end) \div Whole

\* Cmpt_Rgbas.interpolate never finding cmpt1 == cmpt2
SkippedNever(key, shared) == FALSE

\* Cmpt_Rgbas.interpolate: cmpt1 == cmpt2, the two sharing their data
\* (shared: the keys for which they do)
Skipped(key, shared) == key \in shared

\* Item.interpolate(item1, item2, alpha) of the item self: the heap, and the
\* exception raised
RECURSIVE ItemInterpolate(_, _, _, _, _, _, _, _)
ItemInterpolate(h, keys, n, self, item1, item2, alpha, shared) ==
    IF n > Len(keys) THEN [heap |-> h, raised |-> "none"]
    ELSE LET key == keys[n]
         IN  IF \/ key \notin DOMAIN h[item1].components
                \/ key \notin DOMAIN h[item2].components
             THEN [heap |-> h, raised |-> "KeyError"]
             ELSE IF ~SupportsInterpolate(key) \/ Skipped(key, shared)
                  THEN ItemInterpolate(h, keys, n + 1, self, item1, item2,
                                       alpha, shared)
             ELSE ItemInterpolate(
                      SetRgbas(h, Swept(h, self, key), key,
                               Lerp(h[item1].components[key].data,
                                    h[item2].components[key].data, alpha),
                               1),
                      keys, n + 1, self, item1, item2, alpha, shared)

\* the keys for which the components of two items can share their data
CanShare(h, item1, item2) ==
    {key \in DOMAIN h[item1].components \cap DOMAIN h[item2].components :
         h[item1].components[key].data = h[item2].components[key].data}


\* Item.astype(cls)
ItemAstype(item, cls) == [item EXCEPT !._astype = cls]

\* __getattr__ replacing the cached component whatever class is asked for
ReplacedAlways(cmpt_cls, cached_cls) == cmpt_cls = cmpt_cls

\* __getattr__: the cached component is not returned, the class asked for
\* being a subclass of its class and not its class
Replaced(cmpt_cls, cached_cls) ==
    IsSubclass(cmpt_cls, cached_cls) /\ cmpt_cls # cached_cls

\* getattr(item, name) of the item at of the heap: the component returned or
\* the exception raised, and the heap.  A component the item owns is in the
\* __dict__ of the item, and __getattr__ is not called for it.
ItemGetAttr(h, at, name) ==
    LET item == h[at]
    IN  IF name \in DOMAIN item.components
        THEN [heap |-> h, raised |-> "none", kind |-> "owned",
              cmpt |-> item.components[name]]
        ELSE IF item._astype = "None" \/ Declaring(item._astype, name) = <<>>
        THEN [heap |-> h, raised |-> "AttributeError", kind |-> "none",
              cmpt |-> None]
        ELSE LET cmpt_cls == CmptInfoOf(item._astype, name)
                 cache    == item._astype_mock_cmpt
             IN  IF name \in DOMAIN cache
                    /\ ~Replaced(cmpt_cls, cache[name].cls)
                 THEN [heap |-> h, raised |-> "none", kind |-> "mock",
                       cmpt |-> cache[name]]
                 ELSE LET cmpt == [cls |-> cmpt_cls, at |-> at,
                                   decl_cls |-> DeclCls(item._astype, name),
                                   gen |-> IF name \in DOMAIN cache
                                           THEN cache[name].gen + 1 ELSE 1]
                      IN  [heap |-> [h EXCEPT ![at]._astype_mock_cmpt =
                                        (name :> cmpt) @@ @],
                           raised |-> "none", kind |-> "mock",
                           cmpt |-> cmpt]


\* ----------------------------------------------------------------- render

\* render_all taking an animation at its end for one that is running
ActiveToEnd(anim, t) == anim.at <= t /\ t <= anim.end

\* render_all: anim.global_range.at <= self._time < anim.global_range.end
Active(anim, t) == anim.at <= t /\ t < anim.end

\* render_all: the lists heapq.merge is given, those of the animations of
\* flattened that have draw calls and are running at the time t, in the
\* order of flattened
RenderCallLists(flat, t) ==
    LET chosen == SelectSeq(flat, LAMBDA anim :
                      anim.render_call_list # <<>> /\ Active(anim, t))
    IN  [n \in DOMAIN chosen |-> chosen[n].render_call_list]

\* heapq.merge: the lists that still have an element
Pending(lists) == {n \in DOMAIN lists : lists[n] # <<>>}

\* heapq.merge(..., key=depth, reverse=True): the list whose head is next,
\* that of the largest depth and, among these, the first given
NextList(lists) ==
    CHOOSE n \in Pending(lists) :
        \A m \in Pending(lists) :
            \/ Head(lists[n]).depth > Head(lists[m]).depth
            \/ Head(lists[n]).depth = Head(lists[m]).depth /\ n <= m

\* heapq.merge(*lists, key=lambda x: x.depth, reverse=True)
RECURSIVE Merge(_)
Merge(lists) ==
    IF Pending(lists) = {} THEN <<>>
    ELSE LET n == NextList(lists)
         IN  <<Head(lists[n])>>
                 \o Merge([lists EXCEPT ![n] = Tail(lists[n])])

\* TimelineAnim.render_all: the draw calls it invokes, in order; none before
\* anim_on gave a time
RenderAll(flat, t) ==
    IF t = None THEN <<>> ELSE Merge(RenderCallLists(flat, t))

\* TimelineAnim.anim_on(local_t): the time kept in self._time, 1 / fps
\* earlier at the end of the Timeline; period is 1 / fps
AnimOnFrame(local_t, duration, period) ==
    IF local_t = duration THEN local_t - period ELSE local_t

\* TimelineAnim.anim_on(local_t) where a frame takes one unit of time
AnimOnTime(local_t, duration) == AnimOnFrame(local_t, duration, 1)

\* ----------------------------------------------------------------- writer

\* round(n / d) of Python: the nearest integer, of two the even one
Round(n, d) ==
    LET q == n \div d
        r == n % d
    IN  IF 2 * r < d THEN q
        ELSE IF 2 * r > d THEN q + 1
        ELSE IF q % 2 = 0 THEN q ELSE q + 1

\* write_all stopping a frame early
FrameCountWithoutLast(duration, period) == Round(duration, period)

\* write_all: the number of frames, round(duration * fps) + 1
FrameCount(duration, period) == Round(duration, period) + 1

\* write_all: frame / fps
FrameTime(frame, period) == frame * period

\* the Display animations of spans that are running at the time t
Running(displays, t) ==
    {n \in DOMAIN displays :
        Active([at |-> displays[n].at, end |-> SpanEnd(displays[n])], t)}

\* what sp.Popen(command, stdin=sp.PIPE) does: it starts the encoder, or
\* raises as the program is not found or cannot be executed
PopenOutcomes == {"started", "FileNotFoundError", "PermissionError"}

\* open_video_pipe: the exception it ends with
PopenRaised(outcome) ==
    IF outcome = "FileNotFoundError" THEN "ExitException"
    ELSE IF outcome = "started" THEN "none"
    ELSE outcome

\* VideoWriter.__init__: no encoder yet; the files are as they were
NewWriter == [pc |-> "made", period |-> 1, frame |-> 0, piped |-> <<>>,
              popen |-> "none", process |-> "none", stdin |-> "none",
              temp |-> "old", final |-> "old"]

\* ------------------------------------------------------------------ Init

\* a Timeline that has done nothing yet
InitTimeline ==
    /\ current_time = 0
    /\ scheduled_tasks = <<>>
    /\ item_display_times = [i \in Items |-> None]
    /\ display_anims = <<>>
    /\ items_history = [i \in Items |-> Untracked]
    /\ item_data = [i \in Items |-> 0]
    /\ pc = "construct"
    /\ to_time = 0
    /\ call_time = 0
    /\ call_dt = 0
    /\ call_mark = 0
    /\ executed = <<>>
    /\ next_id = 0
    /\ raised = "none"
    /\ call = OtherCall
    /\ anims = <<>>
    /\ call_detects = 0
    /\ maxt = None
    /\ heap = <<>>
    /\ flattened = <<>>
    /\ _time = None
    /\ rgbas = NewRgbas
    /\ heap_display_times = <<>>
    /\ writer = NewWriter

\* a Timeline at the start of its construct(), called by build
Init == InitTimeline /\ ctx_var = <<Self>>

\* a Timeline that was made and not built, outside any build or inside the
\* construct() of another Timeline
InitIdle == InitTimeline /\ ctx_var \in {<<>>, <<Outer>>}

\* --------------------------------------------------------------- actions

\* Timeline.schedule(at, func), func one of funcs
ScheduleOf(funcs) ==
    /\ pc = "construct"
    /\ next_id < MaxTasks
    /\ \E at \in 0..MaxAt, func \in funcs :
          scheduled_tasks' = ScheduleTask(scheduled_tasks, at, func, next_id + 1)
    /\ next_id' = next_id + 1
    /\ raised' = "none"
    /\ call' = OtherCall
    /\ UNCHANGED <<current_time, item_display_times, display_anims,
                   items_history, item_data, locals, executed, products, scene>>

\* forward letting dt = 0 pass
ForwardRejectsNegative(dt) == dt < 0

\* forward's test of dt
ForwardRejects(dt) == dt <= 0

\* forward's to_time
ToTime(now, dt) == now + dt

\* Timeline.forward(dt, _detect_changes=detect), up to its loop, called with
\* the histories ihs after its caller ran detect_changes_of_all detected times
ForwardEnter(ihs, detected, dt, detect) ==
    /\ pc = "construct"
    /\ IF ForwardRejects(dt)
       THEN /\ raised' = "ValueError"
            /\ pc' = "returned"
            /\ call_dt' = dt
            /\ items_history' = ihs
            /\ call_detects' = detected
            /\ UNCHANGED <<to_time, call_time, call_mark>>
       ELSE /\ raised' = "none"
            /\ items_history' =
                  IF detect
                  THEN DetectChangesOfAll(ihs, item_data, current_time)
                  ELSE ihs
            /\ call_detects' = IF detect THEN detected + 1 ELSE detected
            /\ pc' = "forward"
            /\ to_time' = ToTime(current_time, dt)
            /\ call_time' = current_time
            /\ call_dt' = dt
            /\ call_mark' = Len(executed)
    /\ UNCHANGED <<current_time, scheduled_tasks, item_display_times,
                   display_anims, item_data, executed, next_id, maxt, scene>>

\* Timeline.forward(dt, _detect_changes=detect) called by the construct
ForwardCall(dt, detect) ==
    /\ ForwardEnter(items_history, 0, dt, detect)
    /\ call' = OtherCall
    /\ UNCHANGED anims

\* Timeline.forward(dt), which does not pass the time limit
ForwardWithin(limit) ==
    \E dt \in -1..MaxDt :
        /\ current_time + dt <= limit
        /\ ForwardCall(dt, TRUE)

\* Timeline.forward(dt)
ForwardBegin == ForwardWithin(MaxTime)

\* Timeline.forward_to(t)
ForwardTo ==
    \E t \in 0..MaxTime : ForwardCall(t - current_time, TRUE)

\* forward running every task that is queued
DueWhenQueued(tasks, to) == tasks # <<>>

\* forward's loop condition
Due(tasks, to) == tasks # <<>> /\ tasks[1].at <= to

\* forward setting the clock to the rounded time of the task
TaskTimeRounded(task, now) == Rough(task.at)

\* the time forward sets before it calls the task
TaskTime(task, now) == task.at

\* forward's loop body: pop the first task, set the clock, call the task,
\* which is a plain callback, Item.show or Item.hide of the group, a callback
\* that changes a component of the group, or one that calls schedule; the
\* invocation keeps the number of the schedule call the task made, or 0
RunTask ==
    /\ pc = "forward"
    /\ Due(scheduled_tasks, to_time)
    /\ LET task == Head(scheduled_tasks)
           now  == TaskTime(task, current_time)
           made == IF task.func = "schedule" THEN next_id + 1 ELSE 0
       IN  /\ IF task.func = "schedule"
              THEN \E at \in 0..MaxAt :
                      scheduled_tasks' =
                          ScheduleTask(Tail(scheduled_tasks), at, "mark", made)
              ELSE scheduled_tasks' = Tail(scheduled_tasks)
           /\ next_id' = IF task.func = "schedule" THEN made ELSE next_id
           /\ item_data' =
                 IF task.func = "mutate"
                 THEN [item_data EXCEPT !["group"] = (@ + 1) % (MaxData + 1)]
                 ELSE item_data
           /\ current_time' = now
           /\ executed' = Append(executed,
                                 [id |-> task.id, at |-> task.args,
                                  now |-> now, made |-> made])
           /\ CASE task.func = "show" ->
                     /\ item_display_times' =
                           ShowAll(item_display_times, "group", FALSE, now)
                     /\ UNCHANGED display_anims
                [] task.func = "hide" ->
                     /\ display_anims' =
                           HideAllAnims(display_anims, item_display_times,
                                        HideOrder("group", FALSE), now)
                     /\ item_display_times' =
                           HideAllTimes(item_display_times, "group", FALSE)
                [] OTHER -> UNCHANGED <<item_display_times, display_anims>>
    /\ UNCHANGED <<items_history, locals, raised, call, products, scene>>

\* forward adding dt to the clock the tasks have moved
EndTimeFromClock(to, now, dt) == now + dt

\* the time forward leaves the clock at
EndTime(to, now, dt) == to

\* forward after its loop
ForwardEnd ==
    /\ pc = "forward"
    /\ ~Due(scheduled_tasks, to_time)
    /\ current_time' = EndTime(to_time, current_time, call_dt)
    /\ pc' = "returned"
    /\ UNCHANGED <<scheduled_tasks, item_display_times, display_anims,
                   items_history, item_data, to_time, call_time, call_dt,
                   call_mark, call_detects, executed, next_id, raised, call,
                   products, scene>>

\* forward returns to the construct, which goes on (after an exception: having
\* caught it), or to build: the locals of forward are gone
ForwardReturn ==
    /\ pc = "returned"
    /\ pc' = IF call.op = "build" THEN "cleanup" ELSE "construct"
    /\ to_time' = 0
    /\ call_time' = 0
    /\ call_dt' = 0
    /\ call_mark' = 0
    /\ call_detects' = 0
    /\ raised' = "none"
    /\ UNCHANGED <<current_time, scheduled_tasks, item_display_times,
                   display_anims, items_history, item_data, executed, next_id,
                   call, products, scene>>

\* Timeline.show(root, root_only=...)
Show ==
    /\ pc = "construct"
    /\ Len(display_anims) < MaxSpans
    /\ \E root \in Items, root_only \in BOOLEAN :
          /\ item_display_times' =
                ShowAll(item_display_times, root, root_only, current_time)
          /\ call' = [op |-> "show", root |-> root, root_only |-> root_only]
    /\ raised' = "none"
    /\ UNCHANGED <<current_time, scheduled_tasks, display_anims,
                   items_history, item_data, locals, executed, next_id,
                   products, scene>>

\* Timeline.hide(root, root_only=...)
Hide ==
    /\ pc = "construct"
    /\ \E root \in Items, root_only \in BOOLEAN :
          /\ display_anims' =
                HideAllAnims(display_anims, item_display_times,
                             HideOrder(root, root_only), current_time)
          /\ item_display_times' =
                HideAllTimes(item_display_times, root, root_only)
          /\ call' = [op |-> "hide", root |-> root, root_only |-> root_only]
    /\ raised' = "none"
    /\ UNCHANGED <<current_time, scheduled_tasks, items_history, item_data,
                   locals, executed, next_id, products, scene>>

\* Timeline.track(item), item one of items
TrackOf(items) ==
    /\ pc = "construct"
    /\ \E item \in items :
          /\ ~items_history[item].tracked
          /\ items_history' = [items_history EXCEPT ![item] = NewItemHistory]
    /\ raised' = "none"
    /\ call' = OtherCall
    /\ UNCHANGED <<current_time, scheduled_tasks, item_display_times,
                   display_anims, item_data, locals, executed, next_id,
                   products, scene>>

\* Timeline.track(item)
Track == TrackOf(Items)

\* the construct changes a component of an item, one of items
MutateOf(items) ==
    /\ pc = "construct"
    /\ \E item \in items :
          /\ item_data[item] < MaxData
          /\ item_data' = [item_data EXCEPT ![item] = @ + 1]
    /\ raised' = "none"
    /\ call' = OtherCall
    /\ UNCHANGED <<current_time, scheduled_tasks, item_display_times,
                   display_anims, items_history, locals, executed, next_id,
                   products, scene>>

\* the construct changes a component of an item
Mutate == MutateOf(Items)

\* the item of a construct that works on the history of one item
Subject == {"group"}

\* the items on which the call c, the last one, ran _detect_change as of the
\* time now
DetectedBy(c, ihs, now) ==
    IF c.op = "prepare" THEN {i \in Items : ihs[i].tracked}
    ELSE IF c.op = "detect_changes" /\ AsTime(c.as_time, now) = now THEN c.items
    ELSE {}

\* Timeline.detect_changes(items, as_time=as_time), items among those of among,
\* as_time not given or a time not yet passed
DetectChangesAmong(among) ==
    /\ pc = "construct"
    /\ \E items \in (SUBSET among) \ {{}},
          as_time \in {None} \cup current_time..MaxTime :
          /\ items_history' =
                DetectChangesOf(items_history, item_data, items,
                                AsTime(as_time, current_time))
          /\ call' = [op |-> "detect_changes", items |-> items,
                      as_time |-> as_time,
                      again |-> IF AsTime(as_time, current_time) = current_time
                                THEN items \cap DetectedBy(call, items_history,
                                                           current_time)
                                ELSE {}]
    /\ raised' = "none"
    /\ UNCHANGED <<current_time, scheduled_tasks, item_display_times,
                   display_anims, item_data, locals, executed, next_id,
                   products, scene>>

\* prepare leaving the range of the group where the group has it
PrepareAtLocal(now, offset) == offset

\* prepare: anim.local_range.at += self.current_time
PrepareAt(now, offset) == offset + now

\* the number of dynamic records in a history
Dynamics(h) == Cardinality({k \in DOMAIN h : h[k].data = Dynamic})

\* Timeline.register_dynamic(item, dynamic, static, begin, end,
\* static_replaceable), item one of items, as an animation calls it that lasts
\* and starts when it is prepared: the region begins at current_time
RegisterDynamicOf(items) ==
    /\ pc = "construct"
    /\ \E item \in items, static \in {None} \cup ItemData,
          duration \in 1..MaxDt, static_replaceable \in BOOLEAN :
          LET begin == current_time
              end   == begin + duration
          IN
          /\ Dynamics(items_history[item].history) < MaxDynamics
          /\ items_history' =
                [items_history EXCEPT
                    ![item] = RegisterDynamicOn(@, item_data[item], static,
                                                begin, end, static_replaceable)]
          /\ call' = [op |-> "register_dynamic", item |-> item]
    /\ raised' = "none"
    /\ UNCHANGED <<current_time, scheduled_tasks, item_display_times,
                   display_anims, item_data, locals, executed, next_id,
                   products, scene>>

\* Timeline.item_current(item, as_time=as_time, skip_dynamic=skip_dynamic),
\* item one of items; the call keeps what it returned
ItemCurrentIn(items) ==
    /\ pc = "construct"
    /\ \E item \in items, as_time \in {None} \cup 0..MaxTime,
          skip_dynamic \in BOOLEAN :
          LET answer == ItemCurrentOn(items_history[item], item_data[item],
                                      as_time, skip_dynamic)
          IN  /\ items_history' =
                    [items_history EXCEPT ![item] = Tracked(@)]
              /\ call' = [op |-> "item_current", item |-> item,
                          as_time |-> as_time,
                          skip_dynamic |-> skip_dynamic, answer |-> answer]
              /\ raised' = IF answer.kind = "NoRecordError"
                           THEN "NoRecordError" ELSE "none"
    /\ UNCHANGED <<current_time, scheduled_tasks, item_display_times,
                   display_anims, item_data, locals, executed, next_id,
                   products, scene>>

\* ------------------------------------------------------------ prepare, play

\* the range of AnimGroup(*anims), which starts offset after it is prepared
\* and lasts duration, once prepared
PreparedRange(now, offset, duration) ==
    [at |-> PrepareAt(now, offset), duration |-> duration]

\* Timeline.prepare(*anims): the group is an AnimGroup that lasts, and whose
\* animations register nothing when they are initialized
Prepare ==
    /\ pc = "construct"
    /\ Len(anims) < MaxAnims
    /\ \E offset \in 0..MaxOffset, duration \in 1..MaxDt :
          /\ anims' = Append(anims,
                             PreparedRange(current_time, offset, duration))
          /\ call' = [op |-> "prepare", offset |-> offset,
                      duration |-> duration,
                      again |-> DetectedBy(call, items_history, current_time)
                                \cap {i \in Items : items_history[i].tracked}]
    /\ items_history' =
          DetectChangesOfAll(items_history, item_data, current_time)
    /\ raised' = "none"
    /\ UNCHANGED <<current_time, scheduled_tasks, item_display_times,
                   display_anims, item_data, locals, executed, next_id, maxt,
                   scene>>

\* play: forward_to(t_range.end, _detect_changes=False)
PlayDetectsChanges == FALSE

\* Timeline.play(*anims), up to the loop of forward, which does not pass the
\* time limit
PlayWithin(limit) ==
    /\ pc = "construct"
    /\ Len(anims) < MaxAnims
    /\ \E offset \in 0..MaxOffset, duration \in 1..MaxDt :
          LET range == PreparedRange(current_time, offset, duration)
          IN  /\ SpanEnd(range) <= limit
              /\ anims' = Append(anims, range)
              /\ call' = [op |-> "play", offset |-> offset,
                          duration |-> duration]
              /\ ForwardEnter(DetectChangesOfAll(items_history, item_data,
                                                 current_time),
                              1, SpanEnd(range) - current_time,
                              PlayDetectsChanges)

\* Timeline.play(*anims), up to the loop of forward
Play == PlayWithin(MaxTime)

\* ------------------------------------------------------------------ build

\* janim.constants.DEFAULT_DURATION, in ticks
DefaultDuration == 2

\* build finding that time has passed whatever the clock says
NeedsDurationNever(now) == FALSE

\* build's test after construct(): no time has passed
NeedsDuration(now) == now = 0

\* Timeline.build once construct() has returned, up to cleanup_display: a
\* construct that passed no time is given DEFAULT_DURATION.  The call keeps
\* what construct() left: the clock, the visible items, the number of spans
\* and of task invocations.
Build ==
    /\ pc = "construct"
    /\ call' = [op |-> "build", time |-> current_time,
                times |-> item_display_times, spans |-> Len(display_anims),
                ran |-> Len(executed)]
    /\ IF NeedsDuration(current_time)
       THEN ForwardEnter(items_history, 0, DefaultDuration, TRUE)
       ELSE /\ pc' = "cleanup"
            /\ raised' = "none"
            /\ UNCHANGED <<current_time, scheduled_tasks, item_display_times,
                           display_anims, items_history, item_data, to_time,
                           call_time, call_dt, call_mark, call_detects,
                           executed, next_id, maxt, scene>>
    /\ UNCHANGED anims

\* cleanup_display finding no item to hide
CleanupItemsNone(times) == {}

\* cleanup_display: list(self.item_display_times.keys())
CleanupItems(times) == {i \in Items : times[i] # None}

\* the orders in which a dict can hold the items of a set
KeyOrders(items) ==
    {order \in UNION {[1..n -> items] : n \in 0..Cardinality(Items)} :
        /\ Len(order) = Cardinality(items)
        /\ \A i, j \in DOMAIN order : order[i] = order[j] => i = j}

\* TimelineAnim.__init__: maxt = local_range.duration = timeline.current_time
TimelineAnimMaxt(now) == now

\* Timeline.build from cleanup_display on: every displayed item is hidden, in
\* the order of the keys of item_display_times, and the TimelineAnim is made
BuildFinish ==
    /\ pc = "cleanup"
    /\ \E order \in KeyOrders(CleanupItems(item_display_times)) :
          display_anims' = HideAllAnims(display_anims, item_display_times,
                                        order, current_time)
    /\ item_display_times' =
          [i \in Items |->
              IF i \in CleanupItems(item_display_times)
              THEN HideItemTimes(item_display_times, i)[i]
              ELSE item_display_times[i]]
    /\ maxt' = TimelineAnimMaxt(current_time)
    /\ ctx_var' = ContextExit(ctx_var)
    /\ pc' = "built"
    /\ UNCHANGED <<current_time, scheduled_tasks, items_history, item_data,
                   to_time, call_time, call_dt, call_mark, call_detects,
                   executed, next_id, raised, call, anims, heap, flattened,
                   _time, apart>>

\* Timeline.build up to construct(): the Timeline becomes the context
BuildEnter ==
    /\ pc = "construct"
    /\ GetContext(ctx_var, FALSE).obj # Self
    /\ ctx_var' = ContextEnter(ctx_var, Self)
    /\ raised' = "none"
    /\ call' = [op |-> "enter", ctx |-> ctx_var, spans |-> Len(display_anims)]
    /\ UNCHANGED <<current_time, scheduled_tasks, item_display_times,
                   display_anims, items_history, item_data, locals, executed,
                   next_id, products, heap, flattened, _time, apart>>

\* construct() is running: build has set the context and not yet reset it
Constructing == pc = "construct" /\ GetContext(ctx_var, FALSE).obj = Self

\* construct() raises: the exception leaves build through its with statement
ConstructRaises ==
    /\ Constructing
    /\ ctx_var' = ContextExit(ctx_var)
    /\ raised' = "Exception"
    /\ pc' = "failed"
    /\ call' = [op |-> "raise", ctx |-> ctx_var, spans |-> Len(display_anims),
                times |-> item_display_times]
    /\ UNCHANGED <<current_time, scheduled_tasks, item_display_times,
                   display_anims, items_history, item_data, to_time, call_time,
                   call_dt, call_mark, call_detects, executed, next_id,
                   products, heap, flattened, _time, apart>>

\* the caller of build goes on calling the Timeline it has built, or failed
\* to build
Reuse ==
    /\ pc \in {"built", "failed"}
    /\ pc' = "construct"
    /\ raised' = "none"
    /\ call' = OtherCall
    /\ UNCHANGED <<current_time, scheduled_tasks, item_display_times,
                   display_anims, items_history, item_data, to_time, call_time,
                   call_dt, call_mark, call_detects, executed, next_id,
                   products, scene>>

\* ----------------------------------------------------------- rgbas actions

\* a call on components ends: the call keeps what the components were
RgbasCall(op, after) ==
    /\ pc = "construct"
    /\ rgbas' = after
    /\ raised' = "none"
    /\ call' = [op |-> op, before |-> rgbas]
    /\ UNCHANGED <<current_time, scheduled_tasks, item_display_times,
                   display_anims, items_history, item_data, locals, executed,
                   next_id, products, heap, flattened, _time, ctx_var,
                   heap_display_times, writer>>

\* set_rgbas(data) on one of the two components
RgbasSet ==
    \E data \in RgbasData :
        \/ RgbasCall("set_rgbas", [rgbas EXCEPT !.cmpt1 = data])
        \/ RgbasCall("set_rgbas", [rgbas EXCEPT !.cmpt2 = data])

\* the item of the first component gets the item of the second as a child
RgbasAdd ==
    ~rgbas.below /\ RgbasCall("add", [rgbas EXCEPT !.below = TRUE])

\* Cmpt_Rgbas.align_for_interpolate(cmpt1, cmpt2)
RgbasAlign ==
    RgbasCall("align", AlignRgbas(rgbas.cmpt1, rgbas.cmpt2, rgbas.below))

\* ---------------------------------------------------------- writer actions

\* a step of write_all ends
WriterStep(after, exception, time) ==
    /\ pc = "built"
    /\ writer' = after
    /\ raised' = exception
    /\ _time' = time
    /\ UNCHANGED <<current_time, scheduled_tasks, item_display_times,
                   display_anims, items_history, item_data, locals, executed,
                   next_id, products, call, heap, flattened, ctx_var, rgbas,
                   heap_display_times>>

\* write_all(file_path) up to its loop: open_video_pipe starts the encoder,
\* which writes to the _temp path
OpenVideoPipe ==
    /\ writer.pc = "made"
    /\ \E period \in 1..MaxPeriod, outcome \in PopenOutcomes :
          WriterStep(
              IF outcome = "started"
              THEN [writer EXCEPT !.pc = "piping", !.period = period,
                                  !.popen = outcome, !.process = "running",
                                  !.stdin = "open", !.temp = "partial"]
              ELSE [writer EXCEPT !.pc = "raised", !.period = period,
                                  !.popen = outcome],
              PopenRaised(outcome), _time)

\* write_all's loop body: anim_on(frame / fps), render_all, and the pixels
\* are written to the pipe, which fails when the encoder has exited
WriteFrame ==
    /\ writer.pc = "piping"
    /\ writer.frame < FrameCount(maxt, writer.period)
    /\ LET local_t == FrameTime(writer.frame, writer.period)
           time    == AnimOnFrame(local_t, maxt, writer.period)
       IN  \/ WriterStep(
                  [writer EXCEPT
                      !.frame = @ + 1,
                      !.piped = Append(@, [frame |-> writer.frame,
                                           at |-> local_t, time |-> time,
                                           running |->
                                               Running(display_anims, time)])],
                  "none", time)
           \/ WriterStep([writer EXCEPT !.pc = "raised",
                                        !.process = "exited"],
                         "BrokenPipeError", time)

\* write_all after its loop, close_video_pipe: stdin.close()
CloseVideoPipe ==
    /\ writer.pc = "piping"
    /\ writer.frame = FrameCount(maxt, writer.period)
    /\ WriterStep([writer EXCEPT !.pc = "closed", !.stdin = "closed"],
                  "none", _time)

\* close_video_pipe: wait() returns when the encoder has exited, having
\* written the _temp file
WaitEncoder ==
    /\ writer.pc = "closed"
    /\ WriterStep([writer EXCEPT !.pc = "waited", !.process = "exited",
                                 !.temp = "video"],
                  "none", _time)

\* close_video_pipe: terminate() and shutil.move(temp_file_path,
\* final_file_path)
MoveFile ==
    /\ writer.pc = "waited"
    /\ WriterStep([writer EXCEPT !.pc = "done", !.temp = "absent",
                                 !.final = writer.temp],
                  "none", _time)

\* ------------------------------------------------------------ item actions

\* what the Timeline holds, which a call on items leaves alone
timeline == <<current_time, scheduled_tasks, item_display_times,
              display_anims, items_history, item_data, locals, executed,
              next_id, products, ctx_var, apart>>

\* a call on items ends: the heap it leaves, what it raised, the call, and
\* the items the Timeline displays
ItemCallShowing(h, exception, c, times) ==
    /\ pc = "construct"
    /\ Len(h) <= MaxScene + MaxCopies
    /\ heap' = h
    /\ raised' = exception
    /\ call' = c
    /\ heap_display_times' = times
    /\ UNCHANGED <<current_time, scheduled_tasks, item_display_times,
                   display_anims, items_history, item_data, locals, executed,
                   next_id, products, ctx_var, rgbas, writer, flattened,
                   _time>>

\* a call on items that leaves the Timeline alone ends
ItemCall(h, exception, c) ==
    ItemCallShowing(h, exception, c, heap_display_times)

\* a call that makes the scene: nothing is kept of it
SceneCall == [op |-> "scene"]

\* the items a scene works on: the first it makes, the second, which can be
\* below the first and above later ones
First == 1
Second == 2

\* the second item and the items below it
FamilyOfSecond == IF Second \in DOMAIN heap THEN Family(heap, Second) ELSE {}

\* the items after the second that are below no item
Orphans == {i \in DOMAIN heap : i > Second /\ heap[i].parents = <<>>}

\* the scene is being made: no call on its items was made yet
Making == call.op \in {"other", "scene"}

\* the items that are not stored copies
Unstored == {i \in DOMAIN heap : ~heap[i].stored}

\* cls(), cls one of classes, in a scene of at most most items
NewItem(classes, most) ==
    \E cls \in classes :
        /\ Len(heap) < most
        /\ ItemCall(Append(heap, NewItemOf(cls, Len(heap) + 1)), "none",
                    SceneCall)

\* parent.add(child), parent one of parents and child one of children, the
\* child an item made after the parent, so that no item is its own ancestor
AddChild(parents, children) ==
    \E parent \in Unstored \cap parents, child \in Unstored \cap children :
        /\ parent < child
        /\ child \notin Range(heap[parent].children)
        /\ Len(heap[parent].children) < MaxChildren
        /\ ItemCall(AddTo(heap, parent, child), "none", SceneCall)

\* parent.remove(child), parent one of items
RemoveChild(items) ==
    \E parent \in Unstored \cap items :
        \E child \in Range(heap[parent].children) :
            ItemCall(RemoveFrom(heap, parent, child), "none", SceneCall)

\* the scene sets the data of a component, one of keys, of an item, one of
\* items
SetData(items, keys) ==
    \E i \in Unstored \cap items :
        \E key \in keys \cap DOMAIN heap[i].components :
            \E data \in Data \ {heap[i].components[key].data} :
                ItemCall([heap EXCEPT ![i].components[key].data = data],
                         "none", SceneCall)

\* item.store(), item one of items
StoreItem(items) ==
    \E i \in Unstored \cap items :
        /\ Cardinality(DOMAIN heap \ Unstored) < MaxStored
        /\ ItemCall(ItemStore(heap, i).heap, "none",
                    [op |-> "store", item |-> i])

\* self.become(other), the two items apart: neither is the other, and no
\* item is below both or one of them
BecomeItem(self, other) ==
        /\ {self, other} \subseteq Unstored
        /\ Family(heap, self) \cap Family(heap, other) = {}
        /\ LET mine   == DOMAIN heap[self].components
               theirs == DOMAIN heap[other].components
           IN  \E done \in IF mine = theirs THEN {{}}
                           ELSE SUBSET (mine \cap theirs) :
                   LET became == ItemBecome(heap, self, other, done)
                       returned == IF became.raised = "none"
                                   THEN Becoming(heap, self, other)
                                   ELSE Becoming(heap, self, other) \ {self}
                   IN  ItemCallShowing(
                           became.heap, became.raised,
                           [op |-> "become", self |-> self, other |-> other,
                            olds |-> heap[self].children,
                            times |-> heap_display_times],
                           BecomeShow(heap_display_times, became.heap,
                                      ctx_var, returned, current_time))

\* timeline.show(item), item one of items
ShowHeapItem(items) ==
    \E i \in Unstored \cap items :
        /\ ~IsDisplaying(heap_display_times, i)
        /\ ItemCallShowing(heap, "none", SceneCall,
                           ShowFamily(heap_display_times, heap, i,
                                      current_time))

\* self.not_changed(other), other one of others
NotChangedItem(others) ==
    \E self \in DOMAIN heap, other \in Unstored \cap others :
        /\ self # other
        /\ LET answer == ItemNotChanged(heap, self, other)
           IN  ItemCall(heap, answer.raised,
                        [op |-> "not_changed", self |-> self,
                         other |-> other, answer |-> answer])

\* B = A.copy(); B.become(A); A.not_changed(B), A one of items
RoundTrip(items) ==
    \E a \in DOMAIN heap \cap items :
        LET copied == ItemCopy(heap, a, FALSE)
            b      == copied.at
            became == ItemBecome(copied.heap, b, a, {})
            answer == ItemNotChanged(became.heap, a, b)
        IN  ItemCall(became.heap, answer.raised,
                     [op |-> "round_trip", a |-> a, b |-> b,
                      answer |-> answer])

\* the third item a scene makes
Third == 3

\* Item.align_for_interpolate(item1, item2)
AlignItems(item1, item2) ==
    /\ {item1, item2} \subseteq Unstored
    /\ LET aligned == AlignForInterpolate(heap, item1, item2)
       IN  ItemCall(aligned.heap, "none",
                    [op |-> "align", item1 |-> item1, item2 |-> item2,
                     data1 |-> aligned.data1, data2 |-> aligned.data2,
                     union |-> aligned.union])

\* self.interpolate(item1, item2, alpha), alpha one of alphas
InterpolateItem(self, item1, item2, alphas) ==
    /\ {self, item1, item2} \subseteq DOMAIN heap
    /\ \E alpha \in alphas :
           \E shared \in SUBSET CanShare(heap, item1, item2) :
               LET before == heap[self]
                   after  == ItemInterpolate(heap,
                                             KeysOf(heap[self].components),
                                             1, self, item1, item2, alpha,
                                             shared)
               IN  ItemCall(after.heap, after.raised,
                            [op |-> "interpolate", self |-> self,
                             item1 |-> item1, item2 |-> item2,
                             alpha |-> alpha, shared |-> shared,
                             before |-> before])


\* the names a scene asks an item for: those of the components, and one
\* that no class declares
Names == {"depth", "points", "stroke", "color"}

\* item.astype(cls), item one of items
AstypeItem(items) ==
    \E i \in Unstored \cap items, cls \in Classes :
        ItemCall([heap EXCEPT ![i] = ItemAstype(@, cls)], "none", SceneCall)

\* getattr(item, name), item one of items
GetAttrItem(items) ==
    \E i \in DOMAIN heap \cap items, name \in Names :
        LET got == ItemGetAttr(heap, i, name)
        IN  ItemCall(got.heap, got.raised,
                     [op |-> "getattr", item |-> i, name |-> name,
                      kind |-> got.kind, cmpt |-> got.cmpt,
                      cached |-> got.kind = "mock" /\ got.heap = heap])

\* item.copy(), item one of items
CopyItem(items) ==
    \E i \in Unstored \cap items :
        LET copied == ItemCopy(heap, i, FALSE)
        IN  /\ Len(copied.heap) <= MaxItems
            /\ ItemCall(copied.heap, "none",
                        [op |-> "copy", item |-> i, at |-> copied.at])


\* a call on the TimelineAnim of a Timeline built before ends
AnimCall(flat, t, c) ==
    /\ flattened' = flat
    /\ _time' = t
    /\ call' = c
    /\ UNCHANGED <<timeline, heap, pc, to_time, call_time, call_dt,
                   call_mark, raised, anims, call_detects, maxt>>

\* the depths of the draw calls: that of an item as it is created
\* (item.py:78) and one above it
Depths == {0, 1}

\* the lists of draw calls an animation can have, the n-th of flattened
RenderCallListsOf(n) ==
    UNION {[1..len -> [depth : Depths, anim : {n}, at : {0}]] :
               len \in 0..MaxCalls}

\* TimelineAnim.__init__: flatten() finds one more animation, of three, with
\* its global range and its draw calls, numbered in the order of its list
Flatten ==
    /\ Len(flattened) < Third
    /\ \E at \in 0..MaxEnd, end \in 0..MaxEnd :
           /\ at < end
           /\ \E list \in RenderCallListsOf(Len(flattened) + 1) :
                  AnimCall(Append(flattened,
                                  [at |-> at, end |-> end,
                                   render_call_list |->
                                       [n \in DOMAIN list |->
                                           [list[n] EXCEPT !.at = n]]]),
                           _time, SceneCall)

\* TimelineAnim.anim_on(local_t)
AnimOn ==
    \E local_t \in 0..MaxEnd :
        AnimCall(flattened, AnimOnTime(local_t, MaxEnd), SceneCall)

\* TimelineAnim.render_all(ctx)
RenderAllCalls ==
    AnimCall(flattened, _time,
             [op |-> "render_all", rendered |-> RenderAll(flattened, _time)])


\* ---------------------------------------------------------- specifications

\* a construct that schedules tasks and advances the clock
Next ==
    \/ ScheduleOf(Funcs)
    \/ ForwardBegin
    \/ ForwardTo
    \/ RunTask
    \/ ForwardEnd
    \/ ForwardReturn

Spec == Init /\ [][Next]_vars

\* a construct that shows and hides items and advances the clock
NextDisplay ==
    \/ Show
    \/ Hide
    \/ ForwardBegin
    \/ ForwardEnd
    \/ ForwardReturn

SpecDisplay == Init /\ [][NextDisplay]_vars

\* a construct that tracks and mutates items, schedules callbacks and advances
\* the clock
NextHistory ==
    \/ Track
    \/ Mutate
    \/ (next_id < MaxMarks /\ ScheduleOf({"mark"}))
    \/ ForwardBegin
    \/ ForwardTo
    \/ RunTask
    \/ ForwardEnd
    \/ ForwardReturn

SpecHistory == Init /\ [][NextHistory]_vars

\* a construct that shows items, schedules a show or a hide and advances the
\* clock, and the build that follows it
NextBuild ==
    \/ Show
    \/ (next_id < MaxMarks /\ ScheduleOf({"show", "hide"}))
    \/ ForwardWithin(MaxShort)
    \/ RunTask
    \/ ForwardEnd
    \/ ForwardReturn
    \/ Build
    \/ BuildFinish

SpecBuild == Init /\ [][NextBuild]_vars

\* a construct that prepares and plays groups, schedules callbacks and
\* advances the clock
NextPlay ==
    \/ ScheduleOf({"mark"})
    \/ Prepare
    \/ Play
    \/ ForwardBegin
    \/ RunTask
    \/ ForwardEnd
    \/ ForwardReturn

SpecPlay == Init /\ [][NextPlay]_vars

\* a construct that tracks and mutates an item, detects its changes, prepares
\* and plays groups and advances the clock
NextAnim ==
    \/ TrackOf(Subject)
    \/ MutateOf(Subject)
    \/ DetectChangesAmong(Subject)
    \/ Prepare
    \/ PlayWithin(MaxShort)
    \/ ForwardWithin(MaxShort)
    \/ ForwardEnd
    \/ ForwardReturn

SpecAnim == Init /\ [][NextAnim]_vars

\* a construct that mutates an item, registers dynamic regions for it, advances
\* the clock and asks for the state of the item at a time
NextLookup ==
    \/ MutateOf(Subject)
    \/ RegisterDynamicOf(Subject)
    \/ ItemCurrentIn(Subject)
    \/ ForwardWithin(MaxShort)
    \/ ForwardEnd
    \/ ForwardReturn

SpecLookup == Init /\ [][NextLookup]_vars

\* a construct that shows and hides items, tracks and mutates one and advances
\* the clock
NextShown ==
    \/ Show
    \/ Hide
    \/ TrackOf(Subject)
    \/ MutateOf(Subject)
    \/ ForwardWithin(MaxShort)
    \/ ForwardEnd
    \/ ForwardReturn

SpecShown == Init /\ [][NextShown]_vars

\* a construct that tracks an item, schedules a callback that changes it and
\* advances the clock
NextMutating ==
    \/ TrackOf(Subject)
    \/ (next_id < MaxMarks /\ ScheduleOf({"mutate"}))
    \/ ForwardBegin
    \/ RunTask
    \/ ForwardEnd
    \/ ForwardReturn

SpecMutating == Init /\ [][NextMutating]_vars

\* a construct that schedules callbacks, of which some call schedule, and
\* advances the clock
NextNested ==
    \/ ScheduleOf({"mark", "schedule"})
    \/ ForwardWithin(MaxShort)
    \/ RunTask
    \/ ForwardEnd
    \/ ForwardReturn

SpecNested == Init /\ [][NextNested]_vars

\* a caller that builds a Timeline whose construct shows items, advances the
\* clock and may raise, and that calls the Timeline before and after it builds
\* it
NextLifecycle ==
    \/ BuildEnter
    \/ ConstructRaises
    \/ (Constructing /\ Build)
    \/ BuildFinish
    \/ Reuse
    \/ Show
    \/ ForwardWithin(MaxShort)
    \/ ForwardEnd
    \/ ForwardReturn

SpecLifecycle == InitIdle /\ [][NextLifecycle]_vars

\* a construct that shows items and advances the clock, the build that
\* follows it, and the writing of the built timeline to a video file
NextWriter ==
    \/ Show
    \/ ForwardBegin
    \/ ForwardEnd
    \/ ForwardReturn
    \/ Build
    \/ BuildFinish
    \/ OpenVideoPipe
    \/ WriteFrame
    \/ CloseVideoPipe
    \/ WaitEncoder
    \/ MoveFile

SpecWriter == Init /\ [][NextWriter]_vars

\* a scene that sets the rows of two components, puts the item of one below
\* the item of the other and aligns the two
NextRgbas ==
    \/ RgbasSet
    \/ RgbasAdd
    \/ RgbasAlign

SpecRgbas == Init /\ [][NextRgbas]_vars

\* a scene that makes items, puts them below each other, sets their data,
\* stores them and compares them
NextItem ==
    \/ NewItem({"VItem"}, MaxItems)
    \/ AddChild({First}, {Second})
    \/ AddChild({Second}, DOMAIN heap)
    \/ RemoveChild({Second})
    \/ SetData({Second}, {"stroke"})
    \/ StoreItem({Second})
    \/ NotChangedItem({Second})

SpecItem == Init /\ [][NextItem]_vars

\* a Timeline that was made, at the start of its construct() or outside any
InitDisplay == InitTimeline /\ ctx_var \in {<<>>, <<Self>>}

\* a scene that makes items, puts them below each other, shows them on the
\* Timeline, advances the clock and makes one become another
NextDisplayed ==
    \/ (Making /\ NewItem(ItemClasses, MaxItems))
    \/ (Making /\ AddChild({First, Second}, Orphans))
    \/ (Making /\ ShowHeapItem({First, Third}))
    \/ (Making /\ ForwardWithin(MaxShort))
    \/ ForwardEnd
    \/ ForwardReturn
    \/ BecomeItem(First, Second)

SpecDisplayed == InitDisplay /\ [][NextDisplayed]_vars

\* a scene that makes items, puts them below each other, sets their data
\* and makes one become another
NextBecome ==
    \/ (Making /\ NewItem(ItemClasses, MaxScene))
    \/ (Making /\ AddChild({First, Second}, Orphans))
    \/ (Making /\ SetData(FamilyOfSecond, {"depth", "stroke"}))
    \/ BecomeItem(First, Second)
    \/ RoundTrip({Second})

SpecBecome == Init /\ [][NextBecome]_vars

\* a scene of three items of which two are aligned, and one is interpolated
\* between the other two
NextAlign ==
    \/ (Making /\ NewItem(ItemClasses, MaxItems))
    \/ (Making /\ AddChild({First, Second}, Orphans))
    \/ (Making /\ SetData({First, Second, Third}, {"stroke"}))
    \/ (Making /\ SetData({Third}, {"depth"}))
    \/ AlignItems(First, Second)
    \/ InterpolateItem(Third, First, Second, 0..Whole)

SpecAlign == Init /\ [][NextAlign]_vars


\* a scene that asks its one item, and the first copy of it, for components
\* through astype
NextAstype ==
    \/ NewItem(Classes, First)
    \/ AstypeItem({First, Second})
    \/ GetAttrItem({First, Second})
    \/ CopyItem({First})

SpecAstype == Init /\ [][NextAstype]_vars


\* the TimelineAnim of a Timeline is given a time and renders
NextRender ==
    \/ Flatten
    \/ AnimOn
    \/ RenderAllCalls

SpecRender == Init /\ [][NextRender]_vars


\* -------------------------------------------------------------------- claims

\* the forward call that is running or returning was accepted (dt > 0)
InAcceptedCall == pc \in {"forward", "returned"} /\ call_dt > 0

\* the positions in executed of the invocations made by that call
RanInCall == (call_mark + 1)..Len(executed)

\* C1: of two tasks scheduled for times t_a < t_b, forward executes the one at
\* t_a first, in either insertion order and whatever the distance of the times:
\* the tasks one forward call executes are executed in the order of their times.
C1_ExecutedInTimeOrder ==
    InAcceptedCall =>
        \A i, j \in RanInCall :
            i < j => executed[i].at <= executed[j].at

\* C2: current_time never decreases: every step leaves it greater than or equal
\* to its previous value, also a step of a forward call that runs a task
\* scheduled for a time already passed.
C2_CurrentTimeNeverDecreases == [][current_time' >= current_time]_vars

\* C3: when forward(dt) with dt > 0 returns, current_time is its value at the
\* call plus dt, whatever tasks ran in between.
C3_ForwardAddsDt ==
    (pc = "returned" /\ call_dt > 0) => current_time = call_time + call_dt

\* C3, witness: forward returns after it ran a task at another time than the
\* one it ends at.
C3_Witness ==
    /\ pc = "returned"
    /\ call_dt > 0
    /\ Len(executed) > call_mark
    /\ executed[Len(executed)].now # current_time
    /\ executed[Len(executed)].now < call_time

\* what a rejected forward leaves alone
RejectedLeaves ==
    UNCHANGED <<current_time, scheduled_tasks, items_history,
                item_display_times, display_anims, item_data, executed>>

Unrecorded(item) ==
    /\ items_history[item].tracked
    /\ \/ ~HasRecord(items_history[item].history_without_dynamic)
       \/ Latest(items_history[item].history_without_dynamic).data # item_data[item]

C5_BoundaryTaskRuns ==
    (pc = "returned" /\ call_dt > 0) =>
        \A k \in DOMAIN scheduled_tasks : scheduled_tasks[k].at # to_time

\* C6: forward(dt) executes exactly the queued tasks with at <= current_time +
\* dt, each once: when it returns every task left in the queue has a later at,
\* every task it ran was due, and no task ran twice or is still queued.
C6_ExactlyTheDueTasks ==
    (pc = "returned" /\ call_dt > 0) =>
        /\ \A k \in DOMAIN scheduled_tasks : scheduled_tasks[k].at > to_time
        /\ \A i \in RanInCall : executed[i].at <= to_time
        /\ \A i, j \in DOMAIN executed : executed[i].id = executed[j].id => i = j
        /\ \A i \in DOMAIN executed, k \in DOMAIN scheduled_tasks :
              executed[i].id # scheduled_tasks[k].id

\* C7: tasks scheduled with the same at are executed in the order in which
\* schedule was called for them.
C7_TiesInInsertionOrder ==
    \A i, j \in DOMAIN executed :
        (i < j /\ executed[i].at = executed[j].at)
            => executed[i].id < executed[j].id

\* C8: when forward invokes the function of a task, current_time is the time
\* the task was scheduled for, unrounded.
C8_TaskSeesItsOwnTime ==
    \A i \in DOMAIN executed : executed[i].now = executed[i].at

\* C8, witness: a task ran whose time is no multiple of the rounding step, and
\* which was already passed when forward was called.
C8_Witness ==
    /\ InAcceptedCall
    /\ \E i \in RanInCall :
          /\ Rough(executed[i].at) # executed[i].at
          /\ executed[i].at < call_time

\* the spans a step appends to display_anims
NewSpans == SubSeq(display_anims', Len(display_anims) + 1, Len(display_anims'))

\* the step appends to display_anims, or leaves it
KeepsSpans ==
    /\ Len(display_anims') >= Len(display_anims)
    /\ SubSeq(display_anims', 1, Len(display_anims)) = display_anims

\* the step appends exactly one span of the item: from the time it became
\* visible to current_time
EmitsSpanOf(item) ==
    /\ Cardinality({k \in DOMAIN NewSpans : NewSpans[k].item = item}) = 1
    /\ \A k \in DOMAIN NewSpans :
          NewSpans[k].item = item =>
              /\ NewSpans[k].at = item_display_times[item]
              /\ SpanEnd(NewSpans[k]) = current_time

\* the step is a call hide(call'.root, root_only=call'.root_only)
HideStep == pc = "construct" /\ call'.op = "hide"

\* the step is a call show(call'.root, root_only=call'.root_only)
ShowStep == pc = "construct" /\ call'.op = "show"

\* C9, as claimed: hide(X) emits a span if and only if X is visible, the span
\* [time X became visible, current_time), and X stops being visible; hide on
\* an item that is not visible adds no span and changes nothing.
C9_HideOfHiddenChangesNothing ==
    [][HideStep =>
          /\ KeepsSpans
          /\ IF item_display_times[call'.root] # None
             THEN /\ EmitsSpanOf(call'.root)
                  /\ item_display_times'[call'.root] = None
             ELSE /\ display_anims' = display_anims
                  /\ item_display_times' = item_display_times]_vars

\* C9, amended: hide(X) emits a span of X if and only if X is visible, the span
\* [time X became visible, current_time), and X stops being visible; unless
\* root_only is set it does the same for every descendant of X, so hide on an
\* item that is not visible adds no span of that item, and changes nothing when
\* no descendant of it is visible.  Of no other item a span is added or the
\* visibility changed: show(X) at t1 and hide(X) at t2 give one span [t1, t2) of
\* X, and a repeated hide(X) adds none.
C9_HideEmitsSpanOfVisible ==
    [][HideStep =>
          /\ KeepsSpans
          /\ \A i \in Items :
                IF /\ i \in RootAndBelow(call'.root, call'.root_only)
                   /\ item_display_times[i] # None
                THEN /\ EmitsSpanOf(i)
                     /\ item_display_times'[i] = None
                ELSE /\ \A k \in DOMAIN NewSpans : NewSpans[k].item # i
                     /\ item_display_times'[i] = item_display_times[i]]_vars

\* C9, witness: the child was shown at time 1 and hidden at time 3, which gave
\* the only span, [1, 3) of the child.
C9_Witness ==
    /\ call = [op |-> "hide", root |-> "child", root_only |-> FALSE]
    /\ current_time = 3
    /\ display_anims = <<[item |-> "child", at |-> 1, duration |-> 2]>>
    /\ item_display_times["child"] = None

\* C10: show is idempotent: show(X) on a visible X leaves the time X is visible
\* since unchanged and emits nothing; only items not yet visible get
\* current_time as their start.
C10_ShowIdempotent ==
    [][ShowStep =>
          /\ display_anims' = display_anims
          /\ \A i \in Items :
                item_display_times'[i] =
                    IF item_display_times[i] # None THEN item_display_times[i]
                    ELSE IF i \in RootAndBelow(call'.root, call'.root_only)
                         THEN current_time
                         ELSE None]_vars

\* C10, witness: show(X) was called on an X visible since an earlier time, and
\* X is still visible since that time.
C10_Witness ==
    /\ pc = "construct"
    /\ call.op = "show"
    /\ item_display_times[call.root] # None
    /\ item_display_times[call.root] < current_time

\* the step is build's cleanup_display and the making of the TimelineAnim
CleanupStep == pc = "cleanup"

\* C11, as claimed: when build returns no item is marked visible, and every
\* item that was visible at the end of construct has exactly one Display span
\* more than at the end of construct, from the time it was visible since to the
\* final current_time.
C11_VisibleAtConstructEndGetOneSpan ==
    pc = "built" =>
        /\ \A i \in Items : item_display_times[i] = None
        /\ \A i \in Items :
              call.times[i] # None =>
                  LET more == {k \in (call.spans + 1)..Len(display_anims) :
                                  display_anims[k].item = i}
                  IN  /\ Cardinality(more) = 1
                      /\ \A k \in more :
                            /\ display_anims[k].at = call.times[i]
                            /\ SpanEnd(display_anims[k]) = current_time

\* C11, amended: when build returns no item is marked visible, and every item
\* that was visible when cleanup_display began has exactly one more Display
\* span, from the time it was visible since to the final current_time, and no
\* other item has one more.  The items visible then are those visible at the
\* end of construct unless the forward(DEFAULT_DURATION) of build ran a
\* scheduled task.
C11_CleanupHidesTheVisible ==
    [][CleanupStep =>
          /\ pc' = "built"
          /\ current_time' = current_time
          /\ Len(executed) = call.ran => item_display_times = call.times
          /\ KeepsSpans
          /\ \A i \in Items :
                /\ item_display_times'[i] = None
                /\ IF item_display_times[i] # None
                   THEN EmitsSpanOf(i)
                   ELSE \A k \in DOMAIN NewSpans : NewSpans[k].item # i]_vars

\* C11, witness: build is over for a construct that passed no time and left
\* the group and its child visible since 0; cleanup_display made a span
\* [0, DEFAULT_DURATION) of each.
C11_Witness ==
    /\ pc = "built"
    /\ call.time = 0
    /\ \A i \in Items : call.times[i] = 0
    /\ current_time = DefaultDuration
    /\ Len(display_anims) = call.spans + 2
    /\ \A k \in (call.spans + 1)..Len(display_anims) :
          /\ display_anims[k].at = 0
          /\ SpanEnd(display_anims[k]) = DefaultDuration

\* C12: a construct that ends with current_time = 0 is given DEFAULT_DURATION
\* by build, so that the built timeline has a duration > 0; after a construct
\* that advanced the clock build adds no time, and the duration of the
\* TimelineAnim is the current_time the construct reached.
C12_BuiltDuration ==
    pc = "built" =>
        /\ maxt > 0
        /\ maxt = current_time
        /\ current_time = IF call.time = 0 THEN DefaultDuration ELSE call.time

\* C12, witness: build is over for a construct that passed no time and left a
\* task in the queue which the forward of build did not reach.
C12_Witness ==
    /\ pc = "built"
    /\ call.time = 0
    /\ maxt = DefaultDuration
    /\ scheduled_tasks # <<>>

\* the step is a call prepare(*anims)
PrepareStep == pc = "construct" /\ call'.op = "prepare"

C14_PlayIsPrepareThenForwardTo ==
    (pc = "returned" /\ call.op = "play") =>
        /\ raised = "none"
        /\ anims # <<>>
        /\ current_time = SpanEnd(anims[Len(anims)])
        /\ \A k \in DOMAIN scheduled_tasks :
              scheduled_tasks[k].at > SpanEnd(anims[Len(anims)])
        /\ call_detects = 1

\* the step runs _detect_change on the item as of current_time: by prepare or
\* play, by detect_changes, or by a forward that is accepted
DetectsNow(item) ==
    /\ pc = "construct"
    /\ \/ call'.op \in {"prepare", "play"} /\ items_history[item].tracked
       \/ /\ call'.op = "detect_changes"
          /\ item \in call'.items
          /\ AsTime(call'.as_time, current_time) = current_time
       \/ call'.op = "other" /\ pc' = "forward" /\ items_history[item].tracked

\* C15: a detection of changes that runs on an item right after another one
\* at the same current_time, the item not mutated in between and nothing else
\* recorded for it, adds no record to either history of the item.
C15_SecondDetectionRecordsNothing ==
    [][\A i \in DetectedBy(call, items_history, current_time) :
          DetectsNow(i) => items_history'[i] = items_history[i]]_vars

\* C15, witness: an item that was mutated has been detected twice in a row at
\* the same current_time, and its histories hold one record of that time, the
\* mutated state.
C15_Witness ==
    /\ pc = "construct"
    /\ call.op \in {"prepare", "detect_changes"}
    /\ \E i \in call.again :
          LET h == items_history[i].history
          IN  /\ item_data[i] > 0
              /\ Latest(h) = [time |-> current_time, data |-> item_data[i]]
              /\ Cardinality({k \in DOMAIN h : h[k].time = current_time}) = 1
              /\ items_history[i].history_without_dynamic = h

\* the times of the records of a history never decrease
Ordered(h) == \A k, l \in DOMAIN h : k < l => h[k].time <= h[l].time

\* C16: in every History of the Timeline, history and history_without_dynamic
\* of each item, the times of the records never decrease in insertion order,
\* after any sequence of forward, prepare, play, detect_changes,
\* register_dynamic and executions of scheduled tasks.
C16_RecordTimesOrdered ==
    \A i \in Items :
        /\ Ordered(items_history[i].history)
        /\ Ordered(items_history[i].history_without_dynamic)

\* the history the call c of item_current looked into
Selected(c) ==
    IF c.skip_dynamic THEN items_history[c.item].history_without_dynamic
    ELSE items_history[c.item].history

\* item_current answered with a record of the history
Found(answer) == answer.kind \in {"snapshot", "dynamic"}

\* C17: the lookup of a history by time returns the record with the greatest
\* recorded time <= t: the recorded time of the answer is <= the time asked
\* for, no record at or before that time is later, one is found when there is
\* one, and for t1 < t2 the recorded time of the answer for t1 is <= that of
\* the answer for t2.
C17_LookupFindsLatestRecordBefore ==
    (call.op = "item_current" /\ call.as_time # None) =>
        LET h  == Selected(call)
            at == {k \in DOMAIN h : h[k].time <= call.as_time}
        IN  /\ (HasRecord(h) /\ at # {}) => Found(call.answer)
            /\ Found(call.answer) =>
                  /\ call.answer.time <= call.as_time
                  /\ \A k \in at : h[k].time <= call.answer.time
                  /\ \A t1 \in 0..(call.as_time - 1) :
                        LET a1 == ItemCurrentOn(items_history[call.item],
                                                item_data[call.item], t1,
                                                call.skip_dynamic)
                        IN  Found(a1) => a1.time <= call.answer.time

\* an item that is tracked has a record once a detection of changes has run
\* on it, the latest record being its state
RecordedInCall(item) ==
    /\ HasRecord(items_history[item].history)
    /\ Latest(items_history[item].history).data = item_data[item]
    /\ Latest(items_history[item].history).time <= call_time

\* C18, as claimed: in a construct that only calls forward, show and hide
\* around an item, so that no other call has made the item a key of
\* items_history, the History of the item has no snapshot if the item was
\* never mutated and at least one, made by the first detection of changes
\* after the mutation, if it was mutated.
C18_SnapshotsIffMutated ==
    \A i \in Items :
        ~items_history[i].tracked =>
            /\ item_data[i] = 0 => items_history[i].history = <<>>
            /\ (InAcceptedCall /\ item_data[i] > 0) => RecordedInCall(i)

\* C18, amended: in a construct that only calls forward, show and hide around
\* an item, the History of the item has no snapshot, whether the item was
\* mutated or not: forward detects the changes of tracked items only, and
\* show, hide and forward track none.  Once the item is tracked the next
\* forward records a snapshot of it even if it was never mutated, and a later
\* one records another only for a state not yet recorded.
C18_SnapshotsIffTracked ==
    \A i \in Items :
        /\ ~items_history[i].tracked =>
              /\ items_history[i].history = <<>>
              /\ items_history[i].history_without_dynamic = <<>>
        /\ (InAcceptedCall /\ items_history[i].tracked) => RecordedInCall(i)
        /\ Len(items_history[i].history) <= item_data[i] + 1

\* C18, witness: forward is running for the second time since the item was
\* tracked, the item is displayed and was never mutated, and its History
\* holds one snapshot.
C18_Witness ==
    /\ InAcceptedCall
    /\ \E i \in Items :
          /\ items_history[i].tracked
          /\ item_data[i] = 0
          /\ item_display_times[i] # None
          /\ Len(items_history[i].history) = 1
          /\ items_history[i].history[1].time < call_time

\* C19: to resolve the state of an item never fails for lack of a record: when
\* the selected history of the item is empty, or the time asked for lies
\* before the first record of the item, item_current returns the live item
\* and does not raise NoRecordError.
C19_NeverFailsForLackOfRecord ==
    call.op = "item_current" =>
        LET h == Selected(call)
        IN  /\ call.answer.kind # "NoRecordError"
            /\ raised = "none"
            /\ (~HasRecord(h) \/ (call.as_time # None /\ call.as_time < h[1].time))
                  => call.answer.kind = "live"

\* C20: item_current(item, skip_dynamic=True) resolves against static snapshots
\* only: history_without_dynamic never holds a dynamic, so that such a lookup
\* neither returns nor calls one, also for a time inside a region registered
\* with register_dynamic.
C20_SkipDynamicSeesSnapshotsOnly ==
    /\ \A i \in Items :
          \A k \in DOMAIN items_history[i].history_without_dynamic :
              IsItem(items_history[i].history_without_dynamic[k].data)
    /\ (call.op = "item_current" /\ call.skip_dynamic) =>
          /\ call.answer.kind # "dynamic"
          /\ Found(call.answer) => IsItem(call.answer.data)

\* C20, witness: item_current(item, as_time=t, skip_dynamic=True) returned a
\* snapshot for a time t at which the history of the item holds a dynamic.
C20_Witness ==
    /\ call.op = "item_current"
    /\ call.skip_dynamic
    /\ call.answer.kind = "snapshot"
    /\ ItemCurrentOn(items_history[call.item], item_data[call.item],
                     call.as_time, FALSE).kind = "dynamic"

\* the step is a call item_current(item, as_time=..., skip_dynamic=...)
ItemCurrentStep == pc = "construct" /\ call'.op = "item_current"

\* C21: to resolve the state of an item at a time t is a pure function of t:
\* the query leaves the mapping from items to histories, the set of tracked
\* items included, and the records of every History as they were, and the same
\* query made again right after it has the same answer.
C21_LookupIsPure ==
    [][ItemCurrentStep =>
          /\ items_history' = items_history
          /\ ItemCurrentOn(items_history'[call'.item],
                           item_data'[call'.item], call'.as_time,
                           call'.skip_dynamic) = call'.answer]_vars

\* C22: Item.not_changed(self, other) is true if and only if every component
\* owned by self reports not_changed against the component of other of the
\* same key and the two lists of children, stored_children for a stored item
\* and children otherwise, hold the same items in the same order.
C22_NotChangedIffComponentsAndChildren ==
    call.op = "not_changed" =>
        LET self  == heap[call.self]
            other == heap[call.other]
        IN  (call.answer.raised = "none" /\ call.answer.value) <=>
                /\ \A key \in DOMAIN self.components :
                       /\ key \in DOMAIN other.components
                       /\ CmptNotChanged(self.components[key],
                                         other.components[key])
                /\ GetChildren(self) = GetChildren(other)

\* C22, witness: not_changed of a stored copy, whose children are in
\* stored_children, against the item it was stored from returned True.
C22_Witness ==
    /\ call.op = "not_changed"
    /\ call.answer.value
    /\ heap[call.self].stored
    /\ heap[call.self].stored_children # <<>>
    /\ ~heap[call.other].stored

\* the step is a call item.store()
StoreStep == pc = "construct" /\ call'.op = "store" /\ heap' # heap

BecomeStep == pc = "construct" /\ call'.op = "become"

\* after self.become(other) the components of the child kid of self hold
\* the data of those of the child new of other, or, where the component of
\* self set its descendants as well, the data of that of other
BecameLike(kid, new) ==
    /\ DOMAIN heap'[kid].components = DOMAIN heap[new].components
    /\ \A key \in DOMAIN heap[new].components :
           \/ heap'[kid].components[key].data =
                  heap[new].components[key].data
           \/ /\ key \in DOMAIN heap[call'.self].components
              /\ key \in DOMAIN heap[call'.other].components
              /\ kid \in Swept(heap', call'.self, key)
              /\ heap'[kid].components[key].data =
                     heap[call'.other].components[key].data

C25_OneSidedKeysLeft ==
    [][BecomeStep =>
          LET self   == call'.self
              mine   == DOMAIN heap[self].components
              theirs == DOMAIN heap[call'.other].components
          IN  mine # theirs =>
                  /\ raised' = "none"
                  /\ \A key \in mine \ theirs :
                         heap'[self].components[key] =
                             heap[self].components[key]]_vars

\* the step is a call Item.align_for_interpolate(item1, item2)
AlignStep == pc = "construct" /\ call'.op = "align" /\ heap' # heap

\* C27: Item.align_for_interpolate(item1, item2) returns three distinct
\* items, none of them item1 or item2, of which data1 is a stored copy of
\* item1 and data2 a stored copy of item2, of the type, with the stored
\* parents and the components that only item2 has, as on item2; neither
\* item1 nor item2 is modified.
C27_AlignedCopies ==
    [][AlignStep =>
          LET item1 == heap[call'.item1]
              item2 == heap[call'.item2]
              data1 == heap'[call'.data1]
              data2 == heap'[call'.data2]
          IN  /\ Cardinality({call'.data1, call'.data2, call'.union}) = 3
              /\ {call'.data1, call'.data2, call'.union} \cap DOMAIN heap
                     = {}
              /\ data1.stored
              /\ data1.cls = item1.cls
              /\ data1.stored_parents = GetParents(item1)
              /\ data2.stored
              /\ data2.cls = item2.cls
              /\ data2.stored_parents = GetParents(item2)
              /\ \A key \in DOMAIN item2.components \ DOMAIN item1.components :
                     /\ key \in DOMAIN data2.components
                     /\ data2.components[key].data =
                            item2.components[key].data
              /\ heap'[call'.item1] = item1
              /\ heap'[call'.item2] = item2]_vars

\* the step is a call self.interpolate(item1, item2, alpha) at a boundary,
\* alpha = 0 or alpha = 1, item1 and item2 having every component of self
BoundaryStep ==
    /\ pc = "construct"
    /\ call'.op = "interpolate"
    /\ call'.alpha \in {0, Whole}
    /\ DOMAIN heap[call'.self].components \subseteq
           DOMAIN heap[call'.item1].components
               \cap DOMAIN heap[call'.item2].components

\* the item of the boundary of a call of interpolate: item1 for alpha = 0
BoundaryOf(c) == IF c.alpha = 0 THEN c.item1 ELSE c.item2

\* C28: interpolation is exact at the boundaries for the components it
\* sets: for items item1, item2 that have every component of self,
\* self.interpolate(item1, item2, 0) leaves every component of self that
\* supports interpolation, and whose counterparts in item1 and item2 are
\* not equal, with the data of that of item1, and alpha = 1 with the data of
\* that of item2; the other components and the children of self are left as
\* they were, so that not_changed against item1, or item2, holds after the
\* call only if self had the children of that item, and those other
\* components were not changed against its, before the call.
C28_BoundaryOfInterpolated ==
    [][BoundaryStep =>
          LET before == heap[call'.self]
              after  == heap'[call'.self]
              item   == heap[BoundaryOf(call')]
              others == {key \in DOMAIN before.components :
                            \/ ~SupportsInterpolate(key)
                            \/ key \in call'.shared}
          IN  /\ raised' = "none"
              /\ after.children = before.children
              /\ DOMAIN after.components = DOMAIN before.components
              /\ \A key \in DOMAIN before.components \ others :
                     after.components[key].data = item.components[key].data
              /\ \A key \in others :
                     after.components[key] = before.components[key]
              /\ ItemNotChanged(heap', call'.self,
                                BoundaryOf(call')).value =>
                     /\ GetChildren(before) = GetChildren(item)
                     /\ \A key \in others :
                            CmptNotChanged(before.components[key],
                                           item.components[key])]_vars

\* C28, witness: interpolate(item1, item2, 1) gave the stroke of self, which
\* was neither that of item1 nor that of item2, the data of that of item2.
C28_Witness ==
    /\ call.op = "interpolate"
    /\ call.alpha = Whole
    /\ raised = "none"
    /\ "stroke" \in DOMAIN heap[call.self].components
    /\ "stroke" \notin call.shared
    /\ call.before.components["stroke"].data
           # heap[call.item2].components["stroke"].data
    /\ heap[call.self].components["stroke"].data =
           heap[call.item2].components["stroke"].data
    /\ heap[call.self].components["stroke"].data
           # heap[call.item1].components["stroke"].data

\* C28 as stated: for items item1, item2 that have every component of self,
\* self.interpolate(item1, item2, 0) leaves self in a state for which
\* not_changed against item1 holds, and alpha = 1 one for which not_changed
\* against item2 holds, whatever the state of self was before the call.
C28_BoundaryNotChanged ==
    [][BoundaryStep =>
          /\ raised' = "none"
          /\ ItemNotChanged(heap', call'.self,
                            BoundaryOf(call')).value]_vars

\* the step is an access item.name, after item.astype(cls) or without it
GetAttrStep == pc = "construct" /\ call'.op = "getattr"

\* the step is a call item.copy()
CopyStep == pc = "construct" /\ call'.op = "copy" /\ heap' # heap

\* C29: astype borrowing is cached per item and name: the first access to a
\* component the item does not own creates a mock component bound to the
\* item, and every later access to the name returns the same object, which
\* is replaced only when the class of component asked for is a subclass of
\* its class and not its class; mock components are never in
\* item.components, an item that is an instance of the declaring class gets
\* the component it owns, and a copy of the item starts with an empty cache.
C29_AstypeCache ==
    [][/\ GetAttrStep =>
              LET at    == call'.item
                  name  == call'.name
                  item  == heap[at]
                  cache == item._astype_mock_cmpt
                  asked == CmptInfoOf(item._astype, name)
              IN  /\ heap'[at].components = item.components
                  /\ \A i \in DOMAIN heap \ {at} : heap'[i] = heap[i]
                  /\ (/\ item._astype # "None"
                      /\ Declaring(item._astype, name) # <<>>
                      /\ IsInstance(item.cls, DeclCls(item._astype, name)))
                         => /\ call'.kind = "owned"
                            /\ call'.cmpt = item.components[name]
                            /\ heap' = heap
                  /\ call'.kind = "mock" =>
                         /\ name \notin DOMAIN item.components
                         /\ call'.cmpt.at = at
                         /\ DOMAIN heap'[at]._astype_mock_cmpt =
                                DOMAIN cache \cup {name}
                         /\ \A other \in DOMAIN cache \ {name} :
                                heap'[at]._astype_mock_cmpt[other] =
                                    cache[other]
                         /\ heap'[at]._astype_mock_cmpt[name] = call'.cmpt
                         /\ IF name \notin DOMAIN cache
                            THEN call'.cmpt.cls = asked
                            ELSE IF /\ IsSubclass(asked, cache[name].cls)
                                    /\ asked # cache[name].cls
                                 THEN /\ call'.cmpt # cache[name]
                                      /\ call'.cmpt.cls = asked
                                 ELSE call'.cmpt = cache[name]
       /\ CopyStep => heap'[call'.at]._astype_mock_cmpt = Empty
       /\ \A i \in DOMAIN heap' :
              DOMAIN heap'[i]._astype_mock_cmpt
                  \cap DOMAIN heap'[i].components = {}]_vars

\* C29, witness: an item asked for points as a Points, then as a VItem, which
\* replaced the mock component, and then as a Points again was given the
\* mock component of the cache, the second it had.
C29_Witness ==
    /\ call.op = "getattr"
    /\ call.name = "points"
    /\ call.cached
    /\ call.cmpt.gen = 2
    /\ call.cmpt.cls = "Cmpt_VPoints"
    /\ heap[call.item]._astype = "Points"

\* the draw calls of the animations of flattened running at the time t
CallsAt(t) ==
    UNION {Range(flattened[n].render_call_list) :
               n \in {m \in DOMAIN flattened :
                         flattened[m].at <= t /\ t < flattened[m].end}}

\* the draw calls of a list are in non-increasing order of depth
Sorted(list) ==
    \A n, m \in DOMAIN list : n < m => list[n].depth >= list[m].depth

\* C30: for a time t, render_all invokes exactly the draw calls of the
\* animations of flattened with at <= t < end, each once, keeping the order
\* of the calls of one animation, and in non-increasing order of depth over
\* the whole frame provided the list of every animation is.
C30_RenderOrder ==
    (call.op = "render_all" /\ _time # None) =>
        LET rendered == call.rendered
        IN  /\ Range(rendered) = CallsAt(_time)
            /\ Len(rendered) = Cardinality(CallsAt(_time))
            /\ \A n, m \in DOMAIN rendered :
                   (n < m /\ rendered[n].anim = rendered[m].anim) =>
                       rendered[n].at < rendered[m].at
            /\ (\A n \in DOMAIN flattened :
                    Sorted(flattened[n].render_call_list))
                   => Sorted(rendered)

\* C30, witness: render_all at a time at which one animation ended and two
\* were running drew the calls of the two, a call of the second between two
\* of the first.
C30_Witness ==
    /\ call.op = "render_all"
    /\ \E n \in DOMAIN flattened :
           /\ flattened[n].end = _time
           /\ flattened[n].render_call_list # <<>>
    /\ Len(call.rendered) >= 3
    /\ call.rendered[1].anim # call.rendered[2].anim
    /\ call.rendered[1].anim = call.rendered[3].anim
    /\ Sorted(call.rendered)

\* ------------------------------------------------------------- lifecycle

\* construct() raises in this step
RaiseStep == Constructing /\ pc' = "failed"

\* C31: an exception raised inside construct() leaves build: no TimelineAnim
\* is made, no item is force-hidden (no span is added, the visible items stay
\* visible), and Timeline.ctx_var has the value it had before build, so that
\* get_context() does not return the failed timeline and raises outside any
\* build
C31_FailedBuildRestoresContext ==
    [][RaiseStep =>
          /\ raised' = "Exception"
          /\ maxt' = maxt
          /\ display_anims' = display_anims
          /\ item_display_times' = item_display_times
          /\ ctx_var' \in {<<>>, <<Outer>>}
          /\ GetContext(ctx_var', TRUE).obj # Self
          /\ ctx_var' = <<>> =>
                GetContext(ctx_var', TRUE).raised = "TimelineLookupError"
          /\ ctx_var' = <<Outer>> =>
                GetContext(ctx_var', TRUE) = [obj |-> Outer, raised |-> "none"]
    ]_vars

\* a construct that raised, outside any other build, with an item visible
C31_Witness ==
    /\ pc = "failed"
    /\ raised = "Exception"
    /\ ctx_var = <<>>
    /\ maxt = None
    /\ current_time > 0
    /\ \E i \in Items : item_display_times[i] # None

\* C32: once build() has returned a TimelineAnim no operation, a second
\* build() included, changes current_time, the histories, the display spans
\* or the animation lists
C32_BuiltIsImmutable ==
    [][maxt # None =>
          UNCHANGED <<current_time, items_history, display_anims, anims>>
    ]_vars

\* ----------------------------------------------------------------- rgbas

\* C33: align_for_interpolate(c1, c2) never truncates: the two copies and
\* the union it returns have the larger of the two lengths, and c1 and c2
\* are as they were
C33_AlignNeverTruncates ==
    call.op = "align" =>
        LET max_len == Max(Len(call.before.cmpt1), Len(call.before.cmpt2))
        IN  /\ Len(rgbas.aligned.data1) = max_len
            /\ Len(rgbas.aligned.data2) = max_len
            /\ Len(rgbas.aligned.union) = max_len
            /\ rgbas.cmpt1 = call.before.cmpt1
            /\ rgbas.cmpt2 = call.before.cmpt2

\* ------------------------------------------------------- become and show

\* C34: become on an item the active Timeline displays shows it again: its
\* own time is as it was and every item below it after become is displayed,
\* the new ones from current_time; become on an item that is not displayed,
\* or outside any Timeline context, changes no entry
C34_BecomeReissuesShow ==
    call.op = "become" =>
        IF /\ GetContext(ctx_var, FALSE).obj = Self
           /\ IsDisplaying(call.times, call.self)
        THEN /\ IsDisplaying(heap_display_times, call.self)
             /\ heap_display_times[call.self] = call.times[call.self]
             /\ \A i \in Below(heap, call.self) :
                   /\ IsDisplaying(heap_display_times, i)
                   /\ heap_display_times[i] =
                         IF IsDisplaying(call.times, i) THEN call.times[i]
                         ELSE current_time
        ELSE heap_display_times = call.times

\* ----------------------------------------------------------------- writer

\* every frame of the timeline was written to the pipe
AllPiped == Len(writer.piped) = Round(maxt, writer.period) + 1

\* the order of write_all but for the failure to start the encoder: frames
\* are piped to a started encoder only, frame k at the time k / fps, in
\* increasing order from 0 to round(duration * fps); the pipe is closed
\* after the last of them, the encoder has exited after that, and the final
\* path is written after that only, with the video
WriteOrder ==
    /\ writer.piped # <<>> => writer.popen = "started"
    /\ \A n \in DOMAIN writer.piped :
          /\ writer.piped[n].frame = n - 1
          /\ writer.piped[n].at = (n - 1) * writer.period
          /\ n - 1 <= Round(maxt, writer.period)
    /\ writer.stdin = "closed" => AllPiped
    /\ writer.pc \in {"waited", "done"} =>
          writer.stdin = "closed" /\ writer.process = "exited"
    /\ writer.final # "old" =>
          /\ writer.pc = "done"
          /\ writer.final = "video"
          /\ AllPiped
    /\ writer.pc = "done" => writer.final = "video" /\ writer.temp = "absent"
    /\ writer.popen \notin {"none", "started"} =>
          /\ writer.piped = <<>>
          /\ _time = None
          /\ writer.temp = "old"
          /\ writer.final = "old"

\* C35 as stated: the order of write_all, and an ExitException whenever the
\* encoder cannot be started, before any frame is rendered or any file is
\* moved
C35_WriteOrderExitException ==
    /\ WriteOrder
    /\ writer.popen \notin {"none", "started"} => raised = "ExitException"

\* C35: the order of write_all, and an ExitException when the encoder is not
\* found (FileNotFoundError), before any frame is rendered or any file is
\* moved; another error of starting it leaves write_all as it was raised,
\* before any frame or file as well
C35_WriteOrder ==
    /\ WriteOrder
    /\ writer.popen = "FileNotFoundError" => raised = "ExitException"
    /\ writer.popen = "PermissionError" => raised = "PermissionError"

\* a video of more than one frame was written and moved to the final path
C35_Witness ==
    /\ writer.pc = "done"
    /\ writer.final = "video"
    /\ Len(writer.piped) > 2
    /\ writer.period > 1

\* C40: every frame write_all renders, the last one included, is evaluated
\* at a time in [0, duration), so that the spans that end at the end of the
\* timeline are running in the last frame
C40_FramesInsideDuration ==
    \A n \in DOMAIN writer.piped :
        /\ 0 <= writer.piped[n].time
        /\ writer.piped[n].time < maxt
        /\ n = Round(maxt, writer.period) + 1 =>
              \A s \in DOMAIN display_anims :
                  SpanEnd(display_anims[s]) = maxt /\ display_anims[s].at < maxt
                      => s \in writer.piped[n].running

\* ------------------------------------------------------------------ spans

\* C36: every Display span the Timeline records starts no later than it
\* ends, whatever show, hide, schedule and forward calls were made, hides by
\* scheduled tasks included
C36_SpansStartBeforeEnd ==
    \A n \in DOMAIN display_anims :
        /\ display_anims[n].duration >= 0
        /\ display_anims[n].at <= SpanEnd(display_anims[n])

\* ------------------------------------------------------ build and tasks

\* the places of the task of a schedule call in a list
PlacesOf(id, list) == {n \in DOMAIN list : list[n].id = id}

\* C37: build does not flush the queue: when it returns, a task scheduled
\* for a time after the final current_time was never executed and is still
\* queued, so that a hide or a show scheduled for after the end of the
\* timeline is not called
C37_BuildLeavesLaterTasks ==
    pc = "built" =>
        /\ \A n \in DOMAIN executed : executed[n].at <= current_time
        /\ \A id \in 1..next_id :
              Cardinality(PlacesOf(id, scheduled_tasks))
                  + Cardinality(PlacesOf(id, executed)) = 1
        /\ \A n \in DOMAIN scheduled_tasks :
              scheduled_tasks[n].at > current_time =>
                  PlacesOf(scheduled_tasks[n].id, executed) = {}

\* build returned with a hide queued for after the end of a timeline that
\* passed time and showed an item
C37_Witness ==
    /\ pc = "built"
    /\ current_time > 0
    /\ \E n \in DOMAIN scheduled_tasks :
          /\ scheduled_tasks[n].at > current_time
          /\ scheduled_tasks[n].func = "hide"
    /\ \E i \in Items : call.times[i] # None


\* the history of a tracked item after a change detection at the time now
Detected(ih, live, now) ==
    IF ih.history = <<>> \/ ih.history[Len(ih.history)].data # live
    THEN Append(ih.history, [time |-> now, data |-> live])
    ELSE ih.history

\* C38: an accepted forward(dt) runs change detection once, in its first
\* step, before any task of the call has run: each tracked item that has no
\* record or differs from its latest record gets a record of its live state
\* at the time the clock shows before the advance; while the tasks of the call
\* run and the clock is set, a change a task makes to a tracked item adds no
\* record: the next detection records it, at that detection's time
C38_DetectsOnceBeforeTasks ==
    [][/\ (pc = "construct" /\ pc' = "forward") =>
             /\ call_detects' = 1
             /\ Len(executed') = Len(executed)
             /\ \A i \in Items :
                   /\ items_history'[i].tracked = items_history[i].tracked
                   /\ items_history'[i].history =
                         IF items_history[i].tracked
                         THEN Detected(items_history[i], item_data[i],
                                       current_time)
                         ELSE items_history[i].history
       /\ pc = "forward" =>
             /\ items_history' = items_history
             /\ call_detects' = call_detects]_vars

\* a task of an earlier forward changed the tracked item at one time, and the
\* running forward has recorded the changed state at its own, later, time
C38_Witness ==
    /\ pc = "forward"
    /\ call_mark >= 1
    /\ \E n \in 1..call_mark :
          /\ executed[n].now < call_time
          /\ executed[n].at < call_time
    /\ LET h == items_history["group"].history
       IN  /\ Len(h) >= 2
           /\ h[Len(h)].time = call_time
           /\ h[Len(h)].data = item_data["group"]
           /\ h[Len(h)].data # h[Len(h) - 1].data
           /\ h[Len(h) - 1].time < h[Len(h)].time


\* the invocations of the task of the schedule call id
RanAt(id) == {m \in 1..Len(executed) : executed[m].id = id}

\* the queued tasks of the schedule call id
QueuedAt(id) == {k \in 1..Len(scheduled_tasks) : scheduled_tasks[k].id = id}

\* the time the task of the schedule call id was scheduled for
AtOf(id) ==
    IF RanAt(id) # {} THEN executed[CHOOSE m \in RanAt(id) : TRUE].at
    ELSE scheduled_tasks[CHOOSE k \in QueuedAt(id) : TRUE].args

\* C39: when forward has left its loop, a task that a task of this call
\* scheduled for a time <= to_time was called in this call, after the task
\* that scheduled it, and one scheduled for a later time is queued
C39_NestedTaskRunsInSameForward ==
    (pc = "returned" /\ raised = "none") =>
        \A n \in (call_mark + 1)..Len(executed) :
            executed[n].made # 0 =>
                IF AtOf(executed[n].made) <= to_time
                THEN \E m \in RanAt(executed[n].made) : m > n
                ELSE /\ RanAt(executed[n].made) = {}
                     /\ QueuedAt(executed[n].made) # {}

====
